---- MODULE Spec2Model ----
(***************************************************************************)
(* ssh-ify: the per-connection tunnel session (internal/tunnel), the       *)
(* embedded SSH engine that serves it over an in-process pipe              *)
(* (internal/ssh) and the server's connection registry with its graceful   *)
(* shutdown.  Byte strings are sequences of one-character strings.         *)
(***************************************************************************)
EXTENDS Integers, Sequences, FiniteSets, TLC

\* Number of client connections the listener may accept in one run.
NumSessions == 2
Sessions == 1..NumSessions

\* Number of channel ids a client may use on one connection.
MaxChans == 3
ChanIds == 1..MaxChans

\* internal/tunnel/tunnel.go: BufferSize = 4096 * 4
BufferSize == 16384

\* Accept calls that time out, at most.
MaxTimeouts == 2

(***************************************************************************)
(* Byte-string helpers (Go's strings package, as the session uses it).     *)
(* Go evaluates an argument once, before the call; the helpers that look   *)
(* at theirs many times do the same, through a function over {b}.          *)
(***************************************************************************)
CR == "\r"
LF == "\n"
CRLF == <<CR, LF>>
CRLFCRLF == <<CR, LF, CR, LF>>

\* strings.HasSuffix
HasSuffix(b, suf) ==
  /\ Len(b) >= Len(suf)
  /\ SubSeq(b, Len(b) - Len(suf) + 1, Len(b)) = suf

\* Index of the first byte c in b, 0 when absent (strings.IndexByte + 1).
IndexByte(b, c) ==
  LET index[x \in {b}] ==
        IF \E i \in DOMAIN x : x[i] = c
        THEN CHOOSE i \in DOMAIN x : x[i] = c /\ \A j \in 1..(i - 1) : x[j] # c
        ELSE 0
  IN index[b]

\* strings.Split(b, "\r\n"): n separators give n+1 parts, the k-th part lying
\* between the (k-1)-th and the k-th separator (two CRLF cannot overlap).
SplitCRLF(b) ==
  LET split[x \in {b}] ==
        LET seps == {i \in 1..(Len(x) - 1) : x[i] = CR /\ x[i + 1] = LF}
            n == Cardinality(seps)
            sep(k) == CHOOSE i \in seps : Cardinality({j \in seps : j < i}) = k - 1
            lo(k) == IF k = 1 THEN 1 ELSE sep(k - 1) + 2
            hi(k) == IF k = n + 1 THEN Len(x) ELSE sep(k) - 1
        IN [k \in 1..(n + 1) |-> SubSeq(x, lo(k), hi(k))]
  IN split[b]

\* unicode.IsSpace on the bytes that occur here.
IsSpace(c) == c \in {" ", "\t", CR, LF}

\* strings.TrimSpace
TrimSpace(b) ==
  LET trim[x \in {b}] ==
        LET keep == {i \in DOMAIN x : ~IsSpace(x[i])}
        IN IF keep = {} THEN <<>>
           ELSE LET lo == CHOOSE i \in keep : \A j \in keep : i <= j
                    hi == CHOOSE i \in keep : \A j \in keep : j <= i
                IN SubSeq(x, lo, hi)
  IN trim[b]

\* strings.SplitN(b, ":", 2)
SplitColon2(b) ==
  LET split[x \in {b}] ==
        IF IndexByte(x, ":") = 0 THEN <<x>>
        ELSE <<SubSeq(x, 1, IndexByte(x, ":") - 1),
               SubSeq(x, IndexByte(x, ":") + 1, Len(x))>>
  IN split[b]

UpperLetters == <<"A","B","C","D","E","F","G","H","I","J","K","L","M",
                  "N","O","P","Q","R","S","T","U","V","W","X","Y","Z">>
LowerLetters == <<"a","b","c","d","e","f","g","h","i","j","k","l","m",
                  "n","o","p","q","r","s","t","u","v","w","x","y","z">>

\* strings.ToLower
ToLowerByte(c) ==
  IF \E i \in DOMAIN UpperLetters : UpperLetters[i] = c
  THEN LowerLetters[CHOOSE i \in DOMAIN UpperLetters : UpperLetters[i] = c]
  ELSE c
ToLower(b) ==
  LET lower[x \in {b}] == [i \in DOMAIN x |-> ToLowerByte(x[i])]
  IN lower[b]

\* The comparison of the field name without ignoring case.
HeaderLineMatches_CaseSensitive(line, nameLower) ==
  LET matches[parts \in {SplitColon2(TrimSpace(line))}] ==
        /\ Len(parts) = 2
        /\ TrimSpace(parts[1]) = nameLower
  IN Len(TrimSpace(line)) # 0 /\ matches[SplitColon2(TrimSpace(line))]

\* The header line the loop of HeaderValue is looking at: does it carry the field?
HeaderLineMatches(line, nameLower) ==
  LET matches[parts \in {SplitColon2(TrimSpace(line))}] ==
        /\ Len(parts) = 2
        /\ ToLower(TrimSpace(parts[1])) = nameLower
  IN Len(TrimSpace(line)) # 0 /\ matches[SplitColon2(TrimSpace(line))]

\* The loop returning the value as it stands after the colon, blanks included.
HeaderValueFrom_Untrimmed(headers, nameLower) ==
  LET value[hs \in {headers}] ==
        LET hits == {i \in DOMAIN hs : HeaderLineMatches(hs[i], nameLower)}
        IN IF hits = {} THEN <<>>
           ELSE LET first == CHOOSE i \in hits : \A j \in hits : i <= j
                IN SplitColon2(hs[first])[2]
  IN value[headers]

\* The loop going through all the lines: the last line that carries the field.
HeaderValueFrom_LastMatch(headers, nameLower) ==
  LET value[hs \in {headers}] ==
        LET hits == {i \in DOMAIN hs : HeaderLineMatches(hs[i], nameLower)}
        IN IF hits = {} THEN <<>>
           ELSE LET last == CHOOSE i \in hits : \A j \in hits : j <= i
                IN TrimSpace(SplitColon2(TrimSpace(hs[last]))[2])
  IN value[headers]

\* HeaderValue's loop: the trimmed value of the first line that carries the
\* field, the empty string when the loop runs out of lines.
HeaderValueFrom(headers, nameLower) ==
  LET value[hs \in {headers}] ==
        LET hits == {i \in DOMAIN hs : HeaderLineMatches(hs[i], nameLower)}
        IN IF hits = {} THEN <<>>
           ELSE LET first == CHOOSE i \in hits : \A j \in hits : i <= j
                IN TrimSpace(SplitColon2(TrimSpace(hs[first]))[2])
  IN value[headers]

HeaderValue(headers, headerName) == HeaderValueFrom(headers, ToLower(headerName))

UpgradeName == <<"U","p","g","r","a","d","e">>

\* reqLines[1:] as Session.Handle passes it on (reqLines is never empty).
HeaderLines(buf) == Tail(SplitCRLF(buf))

\* The decision WebSocketHandler takes on the header block buf.
WantsUpgrade(buf) == HeaderValue(HeaderLines(buf), UpgradeName) # <<>>


(***************************************************************************)
(* What travels through the tunnel once a session is upgraded.  The SSH    *)
(* wire protocol is taken message by message: k is the kind of message, a  *)
(* and b its string fields, p its binary payload.                          *)
(***************************************************************************)
Msg(k, a, b, p) == [k |-> k, a |-> a, b |-> b, p |-> p, c |-> 0]
\* A message of the forwarding channel id.
ChanMsg(k, a, id, p) == [k |-> k, a |-> a, b |-> "", p |-> p, c |-> id]
Open(id, chanType, extra) == ChanMsg("open", chanType, id, extra)
Data(id, bytes) == ChanMsg("data", "", id, bytes)
Confirm(id) == ChanMsg("confirm", "", id, <<>>)
Reject(id, reason) == ChanMsg("reject", reason, id, <<>>)
ChanClose(id) == ChanMsg("close", "", id, <<>>)
Auth(user, pass) == Msg("auth", user, pass, <<>>)
Banner == Msg("banner", "SSH-2.0-ssh-ify_1.0", "", <<>>)
AuthOK == Msg("authok", "", "", <<>>)
Resp101 == Msg("resp", "101 Switching Protocols", "", <<>>)
Resp431 == Msg("resp", "431 Request Header Fields Too Large", "", <<>>)

(***************************************************************************)
(* The user database the engine authenticates against.                     *)
(***************************************************************************)
HashOf(pass) == <<"bcrypt", pass>>
Users == [alice |-> [Enabled |-> TRUE, PasswordHash |-> HashOf("pw1")],
          bob |-> [Enabled |-> FALSE, PasswordHash |-> HashOf("pw2")]]

verifyPassword(pass, hash) == HashOf(pass) = hash

\* The look at the Enabled flag left out.
Authenticate_IgnoresEnabled(db, username, password) ==
  /\ username \in DOMAIN db
  /\ verifyPassword(password, db[username].PasswordHash)

\* UserDB.Authenticate, db.users being the map of the receiver.
Authenticate(db, username, password) ==
  /\ username \in DOMAIN db
  /\ db[username].Enabled
  /\ verifyPassword(password, db[username].PasswordHash)

\* The global userDB is a pointer: no database before InitializeAuth has
\* run (nil), the one database after it.
NilDB == <<>>

\* Every password of a known user let through.
PasswordAuth_AnyPassword(userDB, user, pass) ==
  userDB # NilDB /\ user \in DOMAIN userDB[1]

\* ssh.PasswordAuth: a nil error exactly when the database has been
\* initialised and the credentials validate.
PasswordAuth(userDB, user, pass) ==
  userDB # NilDB /\ Authenticate(userDB[1], user, pass)

(***************************************************************************)
(* Clients.  A client is the header block it sends and the tunnel messages *)
(* it sends after it.                                                      *)
(***************************************************************************)
RECURSIVE Block(_)
\* The header block made of the given lines: each ends in CRLF, then a bare CRLF.
Block(lines) ==
  IF lines = <<>> THEN CRLF ELSE Head(lines) \o CRLF \o Block(Tail(lines))

LineRequest == <<"G","E","T"," ","/">>
LineUpgradeTunnel == <<"U","p","g","r","a","d","e",":"," ","t","u","n","n","e","l">>
LineHost == <<"H","o","s","t",":"," ","a">>

\* A script entry: the message m, sent once the client has seen a reply of the
\* kind after on the channel chan ("none": sent right after the header block).
Say(m) == [m |-> m, after |-> "none", chan |-> 0]
After(kind, id, m) == [m |-> m, after |-> kind, chan |-> id]

\* The leading entries of a script that wait for nothing.
RECURSIVE EagerLen(_)
EagerLen(script) ==
  IF script = <<>> \/ Head(script).after # "none" THEN 0
  ELSE 1 + EagerLen(Tail(script))
EagerMsgs(script) == [i \in 1..EagerLen(script) |-> script[i].m]

Client(hdr, script) == [on |-> TRUE, hdr |-> hdr, script |-> script]
NoClient == [on |-> FALSE, hdr |-> <<>>, script |-> <<>>]

ClientValid == Client(Block(<<LineRequest, LineUpgradeTunnel>>), <<Say(Auth("alice", "pw1"))>>)
ClientDisabled == Client(Block(<<LineRequest, LineUpgradeTunnel>>), <<Say(Auth("bob", "pw2"))>>)
ClientPlain == Client(Block(<<LineRequest, LineHost>>), <<>>)

LifecycleClients == {ClientValid, ClientDisabled, ClientPlain}

(***************************************************************************)
(* State.                                                                  *)
(***************************************************************************)
VARIABLES
  plan,         \* per session: the client that will connect
  um,           \* the user database of a management process (usermgmt): the map
                \* UserDB.users, and the error its last operation returned
  sshConfig,    \* per session: Session.sshConfig, 0 for nil; a configuration
                \* object is named after the session whose NewConfig call built it
  lpc,          \* serveListener, per listener.  tcp: "open" or "closed";
                \* tls: "select", "accept" or "closed"; and as history the
                \* number of Accept calls that timed out (timeouts) and the
                \* listeners whose Accept returned another error (failed)
  hpc,          \* per session: where its Handle task is
  input,        \* per session: header bytes the client sent, not yet read
  builder,      \* per session: Handle's strings.Builder
  up,           \* per session: tunnel messages from the client, not yet copied
  pin,          \* per session: messages written into the pipe towards the engine
  pout,         \* per session: the engine's pending write on the pipe
  down,         \* per session: what has been written to the client transport
  tr,           \* per session: the transports (client, pipe ends)
  eng,          \* per session: where its engine task (HandleSSHConnection) is
  c2t,          \* per session: copy loop client -> target
  t2c,          \* per session: copy loop target -> client
  conns,        \* Server.conns
  wg,           \* Server.wg's counter
  activeCount,  \* Server.activeCount
  ctxDone,      \* Server.ctx is cancelled
  spc,          \* StartServer: "run", "cancelled", "range", "wait", "returned"
  snap,         \* keys in conns when Range started
  visited,      \* keys Range has visited
  crashed,      \* the process died of an unrecovered panic
  calls,        \* history: per session, how often Add and Remove were invoked
  sig,          \* history: the sessions registered when Shutdown was invoked,
                \* and whether all of them were blocked in their relay loops
  lateAdd,      \* history: sessions whose Add was invoked after Shutdown was
  authed,       \* history: sessions whose password the engine has validated
  pairs,        \* history: are the registry calls so far whole Add;Remove pairs?
  flow,         \* history: per session, the messages Relay has written into the
                \* pipe (in) and those it has read from the pipe (out)
  leased,       \* history: per pool (bufferPool, sshBufferPool), the buffers
                \* taken with Get and not yet given back with Put
  cpos,         \* per session: the next script entry the client will send
  chq,          \* per session: channel-open requests waiting for HandleSSHChannels
  ch            \* per session and channel id: the forwarding channel

vars == <<plan, um, sshConfig, lpc, hpc, input, builder, up, pin, pout, down, tr, eng, c2t, t2c,
          conns, wg, activeCount, ctxDone, spc, snap, visited, crashed, calls,
          sig, lateAdd, authed, pairs, flow, leased, cpos, chq, ch>>

sessVars == <<hpc, input, builder, up, pin, pout, down, tr, eng, c2t, t2c>>
regVars == <<conns, wg, activeCount>>
shutVars == <<ctxDone, spc, snap, visited>>
histVars == <<calls, sig, lateAdd, authed, pairs, flow, leased>>
chanVars == <<cpos, chq, ch>>

\* A forwarding channel nobody has opened.
NoChannel == [st |-> "none", host |-> <<>>, port |-> 0, inq |-> <<>>, tq |-> <<>>,
              topen |-> FALSE, up |-> "idle", dn |-> "idle"]

\* A fresh Session: client connected, no target yet.
NewTransports == [client |-> FALSE, peer |-> FALSE, target |-> FALSE,
                  proxy |-> FALSE, ssh |-> FALSE]

InitCommon ==
  /\ um = [users |-> Users, err |-> "nil"]
  /\ sshConfig = [s \in Sessions |-> 0]
  /\ lpc = [tcp |-> "open", tls |-> "select", timeouts |-> 0, failed |-> {}]
  /\ hpc = [s \in Sessions |-> "idle"]
  /\ input = [s \in Sessions |-> <<>>]
  /\ builder = [s \in Sessions |-> <<>>]
  /\ up = [s \in Sessions |-> <<>>]
  /\ pin = [s \in Sessions |-> <<>>]
  /\ pout = [s \in Sessions |-> <<>>]
  /\ down = [s \in Sessions |-> <<>>]
  /\ tr = [s \in Sessions |-> NewTransports]
  /\ eng = [s \in Sessions |-> "none"]
  /\ c2t = [s \in Sessions |-> "idle"]
  /\ t2c = [s \in Sessions |-> "idle"]
  /\ conns = {}
  /\ wg = 0
  /\ activeCount = 0
  /\ ctxDone = FALSE
  /\ spc = "run"
  /\ snap = {}
  /\ visited = {}
  /\ crashed = FALSE
  /\ calls = [s \in Sessions |-> [add |-> 0, remove |-> 0]]
  /\ sig = [reg |-> {}, blocked |-> FALSE]
  /\ lateAdd = {}
  /\ authed = {}
  /\ pairs = [clean |-> TRUE, busy |-> 0]
  /\ flow = [s \in Sessions |-> [in |-> <<>>, out |-> <<>>]]
  /\ leased = [tunnel |-> 0, ssh |-> 0]
  /\ cpos = [s \in Sessions |-> EagerLen(plan[s].script) + 1]
  /\ chq = [s \in Sessions |-> <<>>]
  /\ ch = [s \in Sessions |-> [c \in ChanIds |-> NoChannel]]

\* Sessions differ only in the order they are accepted in, so the clients are
\* taken in one order.
ClientRank(c) == IF c = ClientValid THEN 1 ELSE IF c = ClientDisabled THEN 2 ELSE 3

Init ==
  /\ plan \in {f \in [Sessions -> LifecycleClients] :
                 \A r, s \in Sessions : r < s => ClientRank(f[r]) <= ClientRank(f[s])}
  /\ InitCommon


(***************************************************************************)
(* Transports.  net.Pipe is synchronous and unbuffered: closing either end *)
(* fails the reads and writes of both.                                     *)
(***************************************************************************)
PipeClosed(s) == tr[s].proxy \/ tr[s].ssh

\* Close leaving the target alone.
SessionClose_ClientOnly(t) == [t EXCEPT !.client = TRUE]

\* Session.Close on the transports t: the client, and the target when it is set.
SessionClose(t) == [t EXCEPT !.client = TRUE,
                             !.proxy = IF t.target THEN TRUE ELSE t.proxy]

\* The process is alive: it has neither panicked nor returned from main.
Alive == ~crashed /\ spc # "returned"

(***************************************************************************)
(* serveListener                                                           *)
(***************************************************************************)
\* The plain listener is a *net.TCPListener, so every Accept carries a deadline
\* of two seconds and the loop is back at its select again and again: "open"
\* stands for the loop going round.
\* Accept returned a connection: a Session is made and its Handle task started.
\* The loop looks at the context only between two Accept calls, so a connection
\* that arrives before the loop has seen the cancellation is still accepted.
Accept(s) ==
  /\ Alive
  /\ lpc.tcp = "open"
  /\ hpc[s] = "idle"
  /\ plan[s].on
  /\ \A r \in Sessions : r < s => hpc[r] # "idle"
  /\ hpc' = [hpc EXCEPT ![s] = "read"]
  /\ input' = [input EXCEPT ![s] = plan[s].hdr]
  /\ up' = [up EXCEPT ![s] = EagerMsgs(plan[s].script)]
  /\ UNCHANGED <<plan, um, sshConfig, chanVars, lpc, builder, pin, pout, down, tr, eng, c2t, t2c, regVars,
                 shutVars, crashed, histVars>>

\* case <-s.ctx.Done(): return, and the deferred ln.Close().
ListenerStop ==
  /\ Alive
  /\ lpc.tcp = "open"
  /\ ctxDone
  /\ lpc' = [lpc EXCEPT !.tcp = "closed"]
  /\ UNCHANGED <<plan, um, sshConfig, chanVars, sessVars, regVars, shutVars, crashed, histVars>>

\* Accept on the plain listener returns a timeout error (the deadline of two
\* seconds has passed): continue, back to the select.
AcceptTimeout ==
  /\ Alive
  /\ lpc.tcp = "open"
  /\ lpc.timeouts < MaxTimeouts
  /\ lpc' = [lpc EXCEPT !.timeouts = @ + 1]
  /\ UNCHANGED <<plan, um, sshConfig, chanVars, sessVars, regVars, shutVars, crashed, histVars>>

\* An error that is not a timeout kept for one.
AcceptError_Continues(l) ==
  /\ Alive
  /\ lpc[l] \in {"open", "accept"}
  /\ lpc' = [lpc EXCEPT !.failed = @ \cup {l}]
  /\ UNCHANGED <<plan, um, sshConfig, chanVars, sessVars, regVars, shutVars, crashed, histVars>>

\* Accept on the listener l returns an error that is not a timeout (the socket
\* was closed, no file descriptor is left): return, and the deferred ln.Close().
AcceptError(l) ==
  /\ Alive
  /\ lpc[l] \in {"open", "accept"}
  /\ lpc' = [lpc EXCEPT ![l] = "closed", !.failed = @ \cup {l}]
  /\ UNCHANGED <<plan, um, sshConfig, chanVars, sessVars, regVars, shutVars, crashed, histVars>>

\* The TLS listener is what tls.NewListener returns, not a *net.TCPListener: the
\* type assertion fails, no deadline is set and Accept blocks until a
\* connection arrives.  The select of its loop: return (and the deferred
\* ln.Close()) when the context is done, else go and block in Accept.
TLSSelect ==
  /\ Alive
  /\ lpc.tls = "select"
  /\ lpc' = [lpc EXCEPT !.tls = IF ctxDone THEN "closed" ELSE "accept"]
  /\ UNCHANGED <<plan, um, sshConfig, chanVars, sessVars, regVars, shutVars, crashed, histVars>>

\* Accept on the TLS listener returned a connection; the loop is at its select
\* again.
TLSAccept(s) ==
  /\ Alive
  /\ lpc.tls = "accept"
  /\ hpc[s] = "idle"
  /\ plan[s].on
  /\ \A r \in Sessions : r < s => hpc[r] # "idle"
  /\ lpc' = [lpc EXCEPT !.tls = "select"]
  /\ hpc' = [hpc EXCEPT ![s] = "read"]
  /\ input' = [input EXCEPT ![s] = plan[s].hdr]
  /\ up' = [up EXCEPT ![s] = EagerMsgs(plan[s].script)]
  /\ UNCHANGED <<plan, um, sshConfig, chanVars, builder, pin, pout, down, tr, eng, c2t, t2c, regVars,
                 shutVars, crashed, histVars>>

\* The client goes away (closes its socket) at some point of its own choosing.
ClientClose(s) ==
  /\ Alive
  /\ hpc[s] \in {"respond", "relay"}
  /\ ~tr[s].client
  /\ ~tr[s].peer
  /\ tr' = [tr EXCEPT ![s].peer = TRUE]
  /\ UNCHANGED <<plan, um, sshConfig, chanVars, lpc, hpc, input, builder, up, pin, pout, down, eng, c2t,
                 t2c, regVars, shutVars, crashed, histVars>>

\* The client has received a reply of the given kind on the given channel.
HasReply(s, kind, id) ==
  \/ kind = "none"
  \/ \E i \in DOMAIN down[s] : down[s][i].k = kind /\ down[s][i].c = id

\* The client sends the next message of its script, once it has the reply that
\* message waits for.
ClientSend(s) ==
  /\ Alive
  /\ hpc[s] # "idle"
  /\ ~tr[s].client
  /\ ~tr[s].peer
  /\ cpos[s] <= Len(plan[s].script)
  /\ HasReply(s, plan[s].script[cpos[s]].after, plan[s].script[cpos[s]].chan)
  /\ up' = [up EXCEPT ![s] = Append(@, plan[s].script[cpos[s]].m)]
  /\ cpos' = [cpos EXCEPT ![s] = @ + 1]
  /\ UNCHANGED <<plan, um, sshConfig, chq, ch, lpc, hpc, input, builder, pin, pout, down, tr,
                 eng, c2t, t2c, regVars, shutVars, crashed, histVars>>

\* The bytes carried by the data messages of a sequence of messages, in order.
DataBytes(msgs) ==
  LET upTo[i \in 0..Len(msgs)] ==
        IF i = 0 THEN <<>>
        ELSE upTo[i - 1] \o (IF msgs[i].k = "data" THEN msgs[i].p ELSE <<>>)
  IN upTo[Len(msgs)]

\* The bytes carried by the data messages of the channel c, in order.
ChanBytes(msgs, c) ==
  LET upTo[i \in 0..Len(msgs)] ==
        IF i = 0 THEN <<>>
        ELSE upTo[i - 1] \o (IF msgs[i].k = "data" /\ msgs[i].c = c THEN msgs[i].p
                             ELSE <<>>)
  IN upTo[Len(msgs)]

\* The client has sent its whole script and has got back, on each of its
\* channels, exactly the bytes it sent there.
Echoed(s) ==
  /\ cpos[s] > Len(plan[s].script)
  /\ DataBytes([i \in DOMAIN plan[s].script |-> plan[s].script[i].m]) # <<>>
  /\ \A c \in ChanIds :
       ChanBytes(down[s], c) =
         ChanBytes([i \in DOMAIN plan[s].script |-> plan[s].script[i].m], c)

\* A client that came for the echo leaves when it has it.
ClientDone(s) == Echoed(s) /\ ClientClose(s)

(***************************************************************************)
(* Session.Handle                                                          *)
(***************************************************************************)
\* The header loop: reader.ReadString('\n') until the block ends in CRLFCRLF,
\* the accumulated size passes BufferSize, or a read fails (EOF, read deadline).
\* After each ReadString the builder holds acc and the input up to a line feed;
\* the loop leaves at the first line feed where that ends in CRLFCRLF (looked
\* at first) or is longer than BufferSize, and with an error when the input
\* runs out before.
ReadLoop(in, acc) ==
  LET ends == {e \in DOMAIN in : in[e] = LF}
      stops == {e \in ends : \/ HasSuffix(acc \o SubSeq(in, 1, e), CRLFCRLF)
                             \/ Len(acc) + e > BufferSize}
  IN IF stops = {} THEN [out |-> "error", buf |-> <<>>]
     ELSE LET e == CHOOSE e \in stops : \A d \in stops : e <= d
          IN IF HasSuffix(acc \o SubSeq(in, 1, e), CRLFCRLF)
             THEN [out |-> "header", buf |-> acc \o SubSeq(in, 1, e)]
             ELSE [out |-> "toolarge", buf |-> <<>>]

\* Session.Handle up to the call of WebSocketHandler.  The bufio.Reader fills
\* its buffer with whatever has arrived: tunnel bytes the client sent along
\* with its header block may end up in that buffer (taken), where nothing
\* reads them again.
ReadHeader(s) ==
  /\ Alive
  /\ hpc[s] = "read"
  /\ LET r == ReadLoop(input[s], <<>>)
     IN /\ builder' = [builder EXCEPT ![s] = r.buf]
        /\ hpc' = [hpc EXCEPT ![s] = IF r.out = "header" THEN "parsed" ELSE "done"]
        /\ down' = [down EXCEPT ![s] =
                      IF r.out = "toolarge" THEN Append(@, Resp431) ELSE @]
        /\ \E taken \in 0..Len(up[s]) :
             /\ r.out # "header" => taken = 0
             /\ up' = [up EXCEPT ![s] = SubSeq(@, taken + 1, Len(@))]
  /\ input' = [input EXCEPT ![s] = <<>>]
  /\ UNCHANGED <<plan, um, sshConfig, chanVars, lpc, pin, pout, tr, eng, c2t, t2c, regVars, shutVars,
                 crashed, histVars>>

\* WebSocketHandler up to and including the start of the engine task.  The
\* Session was made by serveListener with no configuration, so s.sshConfig is
\* nil here and ssh.NewConfig is called.
\* cfgOK: ssh.NewConfig succeeded (the host key could be read or generated).
Upgrade(s) ==
  /\ Alive
  /\ hpc[s] = "parsed"
  /\ builder' = [builder EXCEPT ![s] = <<>>]
  /\ IF ~WantsUpgrade(builder[s])
     THEN /\ tr' = [tr EXCEPT ![s] = SessionClose(@)]
          /\ hpc' = [hpc EXCEPT ![s] = "done"]
          /\ UNCHANGED <<eng, pout, sshConfig>>
     ELSE \E cfgOK \in BOOLEAN :
            IF cfgOK
            THEN /\ sshConfig' = [sshConfig EXCEPT ![s] = IF @ = 0 THEN s ELSE @]
                 /\ eng' = [eng EXCEPT ![s] = "hs"]
                 /\ pout' = [pout EXCEPT ![s] = <<Banner>>]
                 /\ tr' = [tr EXCEPT ![s].target = TRUE]
                 /\ hpc' = [hpc EXCEPT ![s] = "respond"]
            ELSE /\ eng' = [eng EXCEPT ![s] = "nocfg"]
                 /\ hpc' = [hpc EXCEPT ![s] = "done"]
                 /\ UNCHANGED <<pout, tr, sshConfig>>
  /\ UNCHANGED <<plan, um, chanVars, lpc, input, up, pin, down, c2t, t2c, regVars, shutVars,
                 crashed, histVars>>

\* WebSocketHandler's write of the upgrade response, then Relay's two go
\* statements: each loop is one CopyWithBuffer, which takes its buffer from
\* bufferPool before it copies.
Respond(s) ==
  /\ Alive
  /\ hpc[s] = "respond"
  /\ \E written \in BOOLEAN :
       /\ written => ~tr[s].client
       /\ ~written => (tr[s].client \/ tr[s].peer)
       /\ IF written
          THEN /\ down' = [down EXCEPT ![s] = Append(@, Resp101)]
               /\ hpc' = [hpc EXCEPT ![s] = "relay"]
               /\ c2t' = [c2t EXCEPT ![s] = "run"]
               /\ t2c' = [t2c EXCEPT ![s] = "run"]
               /\ leased' = [leased EXCEPT !.tunnel = @ + 2]
               /\ UNCHANGED tr
          ELSE /\ tr' = [tr EXCEPT ![s] = SessionClose(@)]
               /\ hpc' = [hpc EXCEPT ![s] = "done"]
               /\ UNCHANGED <<down, c2t, t2c, leased>>
  /\ UNCHANGED <<plan, um, sshConfig, chanVars, lpc, input, builder, up, pin, pout, eng, regVars,
                 shutVars, crashed, calls, sig, lateAdd, authed, pairs, flow>>

(***************************************************************************)
(* Session.Relay                                                           *)
(***************************************************************************)
\* The chunk written into the pipe twice.
C2tCopy_Twice(s) ==
  /\ Alive
  /\ c2t[s] = "run"
  /\ ~tr[s].client
  /\ ~PipeClosed(s)
  /\ up[s] # <<>>
  /\ pin' = [pin EXCEPT ![s] = Append(Append(@, Head(up[s])), Head(up[s]))]
  /\ flow' = [flow EXCEPT ![s].in = Append(Append(@, Head(up[s])), Head(up[s]))]
  /\ up' = [up EXCEPT ![s] = Tail(@)]
  /\ UNCHANGED <<plan, um, sshConfig, chanVars, lpc, hpc, input, builder, pout, down, tr, eng, c2t, t2c,
                 regVars, shutVars, crashed, calls, sig, lateAdd, authed, pairs, leased>>

\* client -> target: one read from the client written into the pipe.
C2tCopy(s) ==
  /\ Alive
  /\ c2t[s] = "run"
  /\ ~tr[s].client
  /\ ~PipeClosed(s)
  /\ up[s] # <<>>
  /\ pin' = [pin EXCEPT ![s] = Append(@, Head(up[s]))]
  /\ flow' = [flow EXCEPT ![s].in = Append(@, Head(up[s]))]
  /\ up' = [up EXCEPT ![s] = Tail(@)]
  /\ UNCHANGED <<plan, um, sshConfig, chanVars, lpc, hpc, input, builder, pout, down, tr, eng, c2t, t2c,
                 regVars, shutVars, crashed, calls, sig, lateAdd, authed, pairs, leased>>

\* The buffer kept when the read or the write has failed.
C2tEnd_KeepsBuffer(s) ==
  /\ Alive
  /\ c2t[s] = "run"
  /\ \/ tr[s].client
     \/ up[s] = <<>> /\ tr[s].peer
     \/ up[s] # <<>> /\ PipeClosed(s)
  /\ up' = [up EXCEPT ![s] = <<>>]
  /\ tr' = [tr EXCEPT ![s].proxy = TRUE]
  /\ c2t' = [c2t EXCEPT ![s] = "done"]
  /\ UNCHANGED <<plan, um, sshConfig, chanVars, lpc, hpc, input, builder, pin, pout, down, eng, t2c,
                 regVars, shutVars, crashed, calls, sig, lateAdd, authed, pairs, flow,
                 leased>>

\* client -> target ends: the read failed (client closed, or EOF once the data is
\* drained) or the write did (pipe closed).  CopyWithBuffer returns and its
\* deferred putBuffer gives the buffer back; the loop closes the target; nobody
\* reads what the client sent after that.
C2tEnd(s) ==
  /\ Alive
  /\ c2t[s] = "run"
  /\ \/ tr[s].client
     \/ up[s] = <<>> /\ tr[s].peer
     \/ up[s] # <<>> /\ PipeClosed(s)
  /\ up' = [up EXCEPT ![s] = <<>>]
  /\ tr' = [tr EXCEPT ![s].proxy = TRUE]
  /\ c2t' = [c2t EXCEPT ![s] = "done"]
  /\ leased' = [leased EXCEPT !.tunnel = @ - 1]
  /\ UNCHANGED <<plan, um, sshConfig, chanVars, lpc, hpc, input, builder, pin, pout, down, eng, t2c,
                 regVars, shutVars, crashed, calls, sig, lateAdd, authed, pairs, flow>>

\* The pipe -> client loop already copying while the response is unwritten.
T2cCopy_BeforeResponse(s) ==
  /\ Alive
  /\ t2c[s] = "run" \/ hpc[s] = "respond"
  /\ ~PipeClosed(s)
  /\ ~tr[s].client
  /\ pout[s] # <<>>
  /\ down' = [down EXCEPT ![s] = Append(@, Head(pout[s]))]
  /\ flow' = [flow EXCEPT ![s].out = Append(@, Head(pout[s]))]
  /\ pout' = [pout EXCEPT ![s] = Tail(@)]
  /\ UNCHANGED <<plan, um, sshConfig, chanVars, lpc, hpc, input, builder, up, pin, tr, eng, c2t, t2c,
                 regVars, shutVars, crashed, calls, sig, lateAdd, authed, pairs, leased>>

\* target -> client: one read from the pipe written to the client.
T2cCopy(s) ==
  /\ Alive
  /\ t2c[s] = "run"
  /\ ~PipeClosed(s)
  /\ ~tr[s].client
  /\ pout[s] # <<>>
  /\ down' = [down EXCEPT ![s] = Append(@, Head(pout[s]))]
  /\ flow' = [flow EXCEPT ![s].out = Append(@, Head(pout[s]))]
  /\ pout' = [pout EXCEPT ![s] = Tail(@)]
  /\ UNCHANGED <<plan, um, sshConfig, chanVars, lpc, hpc, input, builder, up, pin, tr, eng, c2t, t2c,
                 regVars, shutVars, crashed, calls, sig, lateAdd, authed, pairs, leased>>

\* target -> client ends: the read failed (pipe closed) or the write did (client
\* closed or gone), and what had been read for it is lost.  The loop closes the
\* client.
T2cEnd(s) ==
  /\ Alive
  /\ t2c[s] = "run"
  /\ \/ PipeClosed(s)
     \/ pout[s] # <<>> /\ (tr[s].client \/ tr[s].peer)
  /\ pout' = [pout EXCEPT ![s] = IF PipeClosed(s) THEN @ ELSE <<>>]
  /\ flow' = [flow EXCEPT ![s].out = IF PipeClosed(s) THEN @ ELSE @ \o pout[s]]
  /\ tr' = [tr EXCEPT ![s].client = TRUE]
  /\ t2c' = [t2c EXCEPT ![s] = "done"]
  /\ leased' = [leased EXCEPT !.tunnel = @ - 1]
  /\ UNCHANGED <<plan, um, sshConfig, chanVars, lpc, hpc, input, builder, up, pin, down, eng, c2t,
                 regVars, shutVars, crashed, calls, sig, lateAdd, authed, pairs>>

\* The wait returning as soon as one of the two loops is done.
RelayJoin_OneLoop(s) ==
  /\ Alive
  /\ hpc[s] = "relay"
  /\ c2t[s] = "done" \/ t2c[s] = "done"
  /\ tr' = [tr EXCEPT ![s] = SessionClose(@)]
  /\ hpc' = [hpc EXCEPT ![s] = "remove"]
  /\ UNCHANGED <<plan, um, sshConfig, chanVars, lpc, input, builder, up, pin, pout, down, eng, c2t, t2c,
                 regVars, shutVars, crashed, histVars>>

\* wg.Wait() in Relay returns: both loops are done.  The deferred function
\* starts: s.Close().
RelayJoin(s) ==
  /\ Alive
  /\ hpc[s] = "relay"
  /\ c2t[s] = "done"
  /\ t2c[s] = "done"
  /\ tr' = [tr EXCEPT ![s] = SessionClose(@)]
  /\ hpc' = [hpc EXCEPT ![s] = "remove"]
  /\ UNCHANGED <<plan, um, sshConfig, chanVars, lpc, input, builder, up, pin, pout, down, eng, c2t, t2c,
                 regVars, shutVars, crashed, histVars>>

(***************************************************************************)
(* Server.Remove, statement by statement, called from Relay's defer.       *)
(***************************************************************************)
\* Remove without the Delete: the entry stays in the map.
RemoveDelete_KeepsEntry(s) ==
  /\ Alive
  /\ hpc[s] = "remove"
  /\ calls' = [calls EXCEPT ![s].remove = @ + 1]
  /\ pairs' = [pairs EXCEPT !.clean = @ /\ pairs.busy = s /\ eng[s] \in {"chans", "closed"}]
  /\ hpc' = [hpc EXCEPT ![s] = "wgdone"]
  /\ UNCHANGED <<plan, um, sshConfig, chanVars, lpc, input, builder, up, pin, pout, down, tr, eng, c2t,
                 t2c, regVars, shutVars, crashed, sig, lateAdd, authed, flow, leased>>

\* s.conns.Delete(conn)
RemoveDelete(s) ==
  /\ Alive
  /\ hpc[s] = "remove"
  /\ conns' = conns \ {s}
  /\ calls' = [calls EXCEPT ![s].remove = @ + 1]
  /\ pairs' = [pairs EXCEPT !.clean = @ /\ pairs.busy = s /\ eng[s] \in {"chans", "closed"}]
  /\ hpc' = [hpc EXCEPT ![s] = "wgdone"]
  /\ UNCHANGED <<plan, um, sshConfig, chanVars, lpc, input, builder, up, pin, pout, down, tr, eng, c2t,
                 t2c, wg, activeCount, shutVars, crashed, sig, lateAdd, authed, flow, leased>>

\* Remove returns into a teardown that calls it once more.
RemoveWgDone_Again(s) ==
  /\ Alive
  /\ hpc[s] = "wgdone"
  /\ wg' = wg - 1
  /\ IF wg - 1 < 0
     THEN crashed' = TRUE /\ UNCHANGED <<hpc, activeCount, pairs>>
     ELSE /\ hpc' = [hpc EXCEPT ![s] = IF calls[s].remove < 2 THEN "remove" ELSE "done"]
          /\ activeCount' = activeCount - 1
          /\ pairs' = [pairs EXCEPT !.busy = IF @ = s THEN 0 ELSE @]
          /\ UNCHANGED crashed
  /\ UNCHANGED <<plan, um, sshConfig, chanVars, lpc, input, builder, up, pin, pout, down, tr, eng, c2t,
                 t2c, conns, shutVars, calls, sig, lateAdd, authed, flow, leased>>

\* s.wg.Done(): a counter that goes negative panics, and nothing recovers it.
\* Otherwise atomic.AddInt32(&s.activeCount, -1) follows and Remove returns.
RemoveWgDone(s) ==
  /\ Alive
  /\ hpc[s] = "wgdone"
  /\ wg' = wg - 1
  /\ IF wg - 1 < 0
     THEN crashed' = TRUE /\ UNCHANGED <<hpc, activeCount, pairs>>
     ELSE /\ hpc' = [hpc EXCEPT ![s] = "done"]
          /\ activeCount' = activeCount - 1
          /\ pairs' = [pairs EXCEPT !.busy = IF @ = s THEN 0 ELSE @]
          /\ UNCHANGED crashed
  /\ UNCHANGED <<plan, um, sshConfig, chanVars, lpc, input, builder, up, pin, pout, down, tr, eng, c2t,
                 t2c, conns, shutVars, calls, sig, lateAdd, authed, flow, leased>>

(***************************************************************************)
(* ssh.HandleSSHConnection: the engine task of an upgraded session.        *)
(***************************************************************************)
\* ssh.NewServerConn reads the next handshake message.  Its own pending write
\* (the version banner) has to be taken off the pipe first.  A password that
\* validates is answered with the success message; one that does not leaves the
\* handshake waiting for another attempt, or ends it (giveUp).  The global
\* userDB is the loaded database: NewConfig has run before the engine started.
EngHsRead(s) ==
  /\ Alive
  /\ eng[s] = "hs"
  /\ ~PipeClosed(s)
  /\ pout[s] = <<>>
  /\ pin[s] # <<>>
  /\ LET m == Head(pin[s])
     IN IF m.k = "auth" /\ PasswordAuth(<<Users>>, m.a, m.b)
        THEN /\ eng' = [eng EXCEPT ![s] = "hsok"]
             /\ pout' = [pout EXCEPT ![s] = <<AuthOK>>]
             /\ pin' = [pin EXCEPT ![s] = Tail(@)]
             /\ authed' = authed \cup {s}
             /\ UNCHANGED tr
        ELSE \E giveUp \in BOOLEAN :
               /\ m.k # "auth" => giveUp
               /\ IF giveUp
                  THEN /\ eng' = [eng EXCEPT ![s] = "failed"]
                       /\ tr' = [tr EXCEPT ![s].ssh = TRUE]
                       /\ pin' = [pin EXCEPT ![s] = <<>>]
                  ELSE /\ pin' = [pin EXCEPT ![s] = Tail(@)]
                       /\ UNCHANGED <<eng, tr>>
               /\ UNCHANGED <<pout, authed>>
  /\ UNCHANGED <<plan, um, sshConfig, chanVars, lpc, hpc, input, builder, up, down, c2t, t2c, regVars,
                 shutVars, crashed, calls, sig, lateAdd, pairs, flow, leased>>

\* The error path without its return: the callback runs all the same.
EngHsFail_NoReturn(s) ==
  /\ Alive
  /\ \/ eng[s] = "hs"
     \/ eng[s] = "hsok" /\ pout[s] # <<>>
  /\ PipeClosed(s)
  /\ eng' = [eng EXCEPT ![s] = "cb"]
  /\ tr' = [tr EXCEPT ![s].ssh = TRUE]
  /\ pout' = [pout EXCEPT ![s] = <<>>]
  /\ pin' = [pin EXCEPT ![s] = <<>>]
  /\ UNCHANGED <<plan, um, sshConfig, chanVars, lpc, hpc, input, builder, up, down, c2t, t2c,
                 regVars, shutVars, crashed, histVars>>

\* ssh.NewServerConn returns an error: the pipe was closed under a read or a
\* pending write.  HandleSSHConnection closes its end and returns.
EngHsFail(s) ==
  /\ Alive
  /\ \/ eng[s] = "hs"
     \/ eng[s] = "hsok" /\ pout[s] # <<>>
  /\ PipeClosed(s)
  /\ eng' = [eng EXCEPT ![s] = "failed"]
  /\ tr' = [tr EXCEPT ![s].ssh = TRUE]
  /\ pout' = [pout EXCEPT ![s] = <<>>]
  /\ pin' = [pin EXCEPT ![s] = <<>>]
  /\ UNCHANGED <<plan, um, sshConfig, chanVars, lpc, hpc, input, builder, up, down, c2t, t2c,
                 regVars, shutVars, crashed, histVars>>

\* The callback left out: straight on to the channels.
EngHsDone_SkipsCallback(s) ==
  /\ Alive
  /\ eng[s] = "hsok"
  /\ pout[s] = <<>>
  /\ eng' = [eng EXCEPT ![s] = "chans"]
  /\ UNCHANGED <<plan, um, sshConfig, chanVars, lpc, hpc, input, builder, up, pin, pout, down, tr, c2t,
                 t2c, regVars, shutVars, crashed, histVars>>

\* ssh.NewServerConn returns nil: the success message has been taken off the pipe.
EngHsDone(s) ==
  /\ Alive
  /\ eng[s] = "hsok"
  /\ pout[s] = <<>>
  /\ eng' = [eng EXCEPT ![s] = "cb"]
  /\ UNCHANGED <<plan, um, sshConfig, chanVars, lpc, hpc, input, builder, up, pin, pout, down, tr, c2t,
                 t2c, regVars, shutVars, crashed, histVars>>

(***************************************************************************)
(* Server.Add, statement by statement, called from onAuthSuccess.          *)
(***************************************************************************)
\* Add without the look at the context.
AddSelect_NoCheck(s) ==
  /\ Alive
  /\ eng[s] = "cb"
  /\ calls' = [calls EXCEPT ![s].add = @ + 1]
  /\ lateAdd' = IF spc \in {"range", "wait"} THEN lateAdd \cup {s} ELSE lateAdd
  /\ pairs' = IF pairs.busy = 0 /\ ~ctxDone
              THEN [pairs EXCEPT !.busy = s]
              ELSE [pairs EXCEPT !.clean = FALSE]
  /\ eng' = [eng EXCEPT ![s] = "store"]
  /\ UNCHANGED <<plan, um, sshConfig, chanVars, lpc, hpc, input, builder, up, pin, pout, down, tr, c2t,
                 t2c, regVars, shutVars, crashed, sig, authed, flow, leased>>

\* select { case <-s.ctx.Done(): return; default: ... }
AddSelect(s) ==
  /\ Alive
  /\ eng[s] = "cb"
  /\ calls' = [calls EXCEPT ![s].add = @ + 1]
  /\ lateAdd' = IF spc \in {"range", "wait"} THEN lateAdd \cup {s} ELSE lateAdd
  /\ pairs' = IF pairs.busy = 0 /\ ~ctxDone
              THEN [pairs EXCEPT !.busy = s]
              ELSE [pairs EXCEPT !.clean = FALSE]
  /\ eng' = [eng EXCEPT ![s] = IF ctxDone THEN "chans" ELSE "store"]
  /\ UNCHANGED <<plan, um, sshConfig, chanVars, lpc, hpc, input, builder, up, pin, pout, down, tr, c2t,
                 t2c, regVars, shutVars, crashed, sig, authed, flow, leased>>

\* s.conns.Store(conn, struct{}{})
AddStore(s) ==
  /\ Alive
  /\ eng[s] = "store"
  /\ conns' = conns \cup {s}
  /\ eng' = [eng EXCEPT ![s] = "wgadd"]
  /\ UNCHANGED <<plan, um, sshConfig, chanVars, lpc, hpc, input, builder, up, pin, pout, down, tr, c2t,
                 t2c, wg, activeCount, shutVars, crashed, histVars>>

\* s.wg.Add(1), atomic.AddInt32(&s.activeCount, 1); the callback returns.
AddWgAdd(s) ==
  /\ Alive
  /\ eng[s] = "wgadd"
  /\ wg' = wg + 1
  /\ activeCount' = activeCount + 1
  /\ eng' = [eng EXCEPT ![s] = "chans"]
  /\ UNCHANGED <<plan, um, sshConfig, chanVars, lpc, hpc, input, builder, up, pin, pout, down, tr, c2t,
                 t2c, conns, shutVars, crashed, histVars>>

\* HandleSSHChannels returns (the connection is gone); sshConn.Close().
EngChansEnd(s) ==
  /\ Alive
  /\ eng[s] = "chans"
  /\ PipeClosed(s)
  /\ chq[s] = <<>>
  /\ eng' = [eng EXCEPT ![s] = "closed"]
  /\ tr' = [tr EXCEPT ![s].ssh = TRUE]
  /\ pin' = [pin EXCEPT ![s] = <<>>]
  /\ UNCHANGED <<plan, um, sshConfig, chanVars, lpc, hpc, input, builder, up, pout, down, c2t, t2c,
                 regVars, shutVars, crashed, histVars>>

(***************************************************************************)
(* The channel layer of the engine (internal/ssh/channels.go).  Payload    *)
(* bytes are numbers 0..255.                                               *)
(***************************************************************************)
\* binary.BigEndian.Uint32 and its inverse.
BigEndianUint32(b) == b[1] * 16777216 + b[2] * 65536 + b[3] * 256 + b[4]
PutUint32(n) == <<(n \div 16777216) % 256, (n \div 65536) % 256,
                  (n \div 256) % 256, n % 256>>

\* The two halves of a uint32: its values from 2^31 on are beyond the integers
\* of the model checker.
Uint32High(b) == b[1] * 256 + b[2]
Uint32Low(b) == b[3] * 256 + b[4]

\* A uint32 kept whole, as its two halves: the port of a request.
Uint32(b) == [hi |-> Uint32High(b), lo |-> Uint32Low(b)]

\* The width of Go's int: 32 bits on the 32-bit builds (386, arm), 64 otherwise.
IntWidths == {32, 64}
MaxInt32 == 2147483647

\* The type test accepting the reverse forwarding type as well.
isDirectTCPIPChannel_AnyTCPIP(newChannel) ==
  newChannel.a \in {"direct-tcpip", "forwarded-tcpip"}

isDirectTCPIPChannel(newChannel) == newChannel.a = "direct-tcpip"

ParseError == [res |-> "err", host |-> <<>>, port |-> 0]
ParsePanic == [res |-> "panic", host |-> <<>>, port |-> 0]

\* The port taken from the last four bytes of the payload.
parseDirectTCPIPExtra_PortAtEnd(extra, w) ==
  IF Len(extra) < 4 \/ Uint32High(extra) > 0 \/ Len(extra) < 4 + Uint32Low(extra) + 4
  THEN ParseError
  ELSE [res |-> "ok",
        host |-> SubSeq(extra, 5, 4 + Uint32Low(extra)),
        port |-> Uint32(SubSeq(extra, Len(extra) - 3, Len(extra)))]

\* parseDirectTCPIPExtra on a build whose int has w bits.  l is
\* int(binary.BigEndian.Uint32(extra[:4])).  Below 2^30 nothing overflows.
\* From there on 4+l+4, where it is exact, is more than the length of any SSH
\* packet: an error.  On a 32-bit build l is negative from 2^31 on, and 4+l+4
\* wraps around from 2^31-8 on: the length test compares with that sum, and
\* when it lets the payload through, the slice expression extra[4 : 4+l]
\* panics (slice bounds out of range).
parseDirectTCPIPExtra(extra, w) ==
  IF Len(extra) < 4 THEN ParseError
  ELSE LET hi == Uint32High(extra)
           lo == Uint32Low(extra)
       IN IF hi < 16384
          THEN LET l == hi * 65536 + lo
               IN IF Len(extra) < 4 + l + 4 THEN ParseError
                  ELSE [res |-> "ok",
                        host |-> SubSeq(extra, 5, 4 + l),
                        port |-> Uint32(SubSeq(extra, 4 + l + 1, 4 + l + 4))]
          ELSE IF w = 64 \/ hi < 32767 \/ (hi = 32767 /\ lo <= 65527)
          THEN ParseError
          ELSE LET sum == IF hi >= 32768 THEN (hi - 65536) * 65536 + lo + 8
                          ELSE (lo - 65528) - MaxInt32 - 1
               IN IF Len(extra) < sum THEN ParseError ELSE ParsePanic

\* The one target the network offers: an echo service.  net.Dial succeeds for
\* its address and fails for every other.  The address dialled is the host
\* joined with strconv.Itoa(int(targetPort)): a port field above 65535 is
\* written out as it is (on a 32-bit build, from 2^31 on, as a negative
\* number), which is the address of nothing, and net.Dial fails.
EchoAddr == [host |-> <<104>>, port |-> 7]
Reachable_Low16(host, port) == [host |-> host, port |-> port.lo] = EchoAddr
Reachable(host, port) ==
  port.hi = 0 /\ [host |-> host, port |-> port.lo] = EchoAddr

\* The connection's reader (the mux x/crypto/ssh runs once the handshake is
\* over) takes one message off the pipe: a channel-open request is queued for
\* HandleSSHChannels, channel data goes to the buffer of its channel.
EngMux(s) ==
  /\ Alive
  /\ eng[s] \in {"cb", "store", "wgadd", "chans"}
  /\ ~PipeClosed(s)
  /\ pin[s] # <<>>
  /\ LET m == Head(pin[s])
     IN /\ pin' = [pin EXCEPT ![s] = Tail(@)]
        /\ chq' = [chq EXCEPT ![s] = IF m.k = "open" THEN Append(@, m) ELSE @]
        /\ ch' = IF m.k = "data" /\ m.c \in ChanIds /\ ch[s][m.c].st \in {"dial", "fwd"}
                 THEN [ch EXCEPT ![s][m.c].inq = Append(@, m.p)]
                 ELSE ch
  /\ UNCHANGED <<plan, um, sshConfig, cpos, lpc, hpc, input, builder, up, pout, down, tr, eng,
                 c2t, t2c, regVars, shutVars, crashed, histVars>>

\* One turn of the loop of HandleSSHChannels: the type is checked, the payload
\* parsed, the channel rejected or accepted and its forwarding task started.
\* The reply is a write on the connection; with the pipe closed it fails.  A
\* panic in the parser is recovered nowhere: the process dies.
ChanExamine(s) ==
  /\ Alive
  /\ eng[s] = "chans"
  /\ chq[s] # <<>>
  /\ pout[s] = <<>> \/ PipeClosed(s)
  /\ \E w \in IntWidths :
       LET newChannel == Head(chq[s])
           direct == isDirectTCPIPChannel(newChannel)
           parsed == parseDirectTCPIPExtra(newChannel.p, w)
           reply == IF ~direct THEN Reject(newChannel.c, "unknown channel type")
                    ELSE IF parsed.res = "err" THEN Reject(newChannel.c, "prohibited")
                    ELSE Confirm(newChannel.c)
       IN IF direct /\ parsed.res = "panic"
          THEN /\ eng' = [eng EXCEPT ![s] = "panic"]
               /\ crashed' = TRUE
               /\ UNCHANGED <<chq, pout, ch>>
          ELSE /\ chq' = [chq EXCEPT ![s] = Tail(@)]
               /\ pout' = [pout EXCEPT ![s] = IF PipeClosed(s) THEN @ ELSE <<reply>>]
               /\ ch' = IF reply.k = "confirm" /\ ~PipeClosed(s)
                        THEN [ch EXCEPT ![s][newChannel.c] =
                                [NoChannel EXCEPT !.st = "dial", !.host = parsed.host,
                                                  !.port = parsed.port]]
                        ELSE ch
               /\ UNCHANGED <<eng, crashed>>
  /\ UNCHANGED <<plan, um, sshConfig, cpos, lpc, hpc, input, builder, up, pin, down, tr,
                 c2t, t2c, regVars, shutVars, histVars>>

\* The error of net.Dial overlooked: ForwardData starts all the same.
ChanDial_Forwards(s, c) ==
  /\ Alive
  /\ ch[s][c].st = "dial"
  /\ ch' = [ch EXCEPT ![s][c].st = "fwd", ![s][c].topen = Reachable(ch[s][c].host, ch[s][c].port),
                      ![s][c].up = "run", ![s][c].dn = "run"]
  /\ leased' = [leased EXCEPT !.ssh = @ + 2]
  /\ UNCHANGED <<plan, um, sshConfig, cpos, chq, lpc, hpc, input, builder, up, pin, pout, down, tr,
                 eng, c2t, t2c, regVars, shutVars, crashed, calls, sig, lateAdd, authed,
                 pairs, flow>>

\* handlePortForwarding: net.Dial.  On an error the deferred ch.Close() tells
\* the client; otherwise ForwardData starts its two copy loops, each one
\* CopyWithSSHBuffer, which takes its buffer from sshBufferPool first.
ChanDial(s, c) ==
  /\ Alive
  /\ ch[s][c].st = "dial"
  /\ IF Reachable(ch[s][c].host, ch[s][c].port)
     THEN /\ ch' = [ch EXCEPT ![s][c].st = "fwd", ![s][c].topen = TRUE,
                              ![s][c].up = "run", ![s][c].dn = "run"]
          /\ leased' = [leased EXCEPT !.ssh = @ + 2]
          /\ UNCHANGED pout
     ELSE /\ pout[s] = <<>> \/ PipeClosed(s)
          /\ ch' = [ch EXCEPT ![s][c].st = "closed", ![s][c].inq = <<>>]
          /\ pout' = [pout EXCEPT ![s] = IF PipeClosed(s) THEN @ ELSE <<ChanClose(c)>>]
          /\ UNCHANGED leased
  /\ UNCHANGED <<plan, um, sshConfig, cpos, chq, lpc, hpc, input, builder, up, pin, down, tr,
                 eng, c2t, t2c, regVars, shutVars, crashed, calls, sig, lateAdd, authed,
                 pairs, flow>>

\* The chunk is lost instead of written to the target.
ChanUpCopy_Drops(s, c) ==
  /\ Alive
  /\ ch[s][c].st = "fwd"
  /\ ch[s][c].up = "run"
  /\ ch[s][c].inq # <<>>
  /\ ch[s][c].topen
  /\ ch' = [ch EXCEPT ![s][c].inq = Tail(@)]
  /\ UNCHANGED <<plan, um, sshConfig, cpos, chq, lpc, sessVars, regVars, shutVars, crashed,
                 histVars>>

\* ForwardData, channel -> target: one chunk read from the channel is written
\* to the target, which sends it back (it is an echo service).
ChanUpCopy(s, c) ==
  /\ Alive
  /\ ch[s][c].st = "fwd"
  /\ ch[s][c].up = "run"
  /\ ch[s][c].inq # <<>>
  /\ ch[s][c].topen
  /\ ch' = [ch EXCEPT ![s][c].tq = Append(@, Head(ch[s][c].inq)),
                      ![s][c].inq = Tail(@)]
  /\ UNCHANGED <<plan, um, sshConfig, cpos, chq, lpc, sessVars, regVars, shutVars, crashed,
                 histVars>>

\* channel -> target ends: the channel read returned EOF (the connection is
\* gone) or the write to the target failed.  The buffer goes back to its pool;
\* nothing is closed here.
ChanUpEnd(s, c) ==
  /\ Alive
  /\ ch[s][c].st = "fwd"
  /\ ch[s][c].up = "run"
  /\ \/ ch[s][c].inq = <<>> /\ PipeClosed(s)
     \/ ch[s][c].inq # <<>> /\ ~ch[s][c].topen
  /\ ch' = [ch EXCEPT ![s][c].up = "done", ![s][c].inq = <<>>]
  /\ leased' = [leased EXCEPT !.ssh = @ - 1]
  /\ UNCHANGED <<plan, um, sshConfig, cpos, chq, lpc, sessVars, regVars, shutVars, crashed,
                 calls, sig, lateAdd, authed, pairs, flow>>

\* ForwardData, target -> channel: one chunk read from the target is written to
\* the channel, that is, as a data message on the connection.
ChanDnCopy(s, c) ==
  /\ Alive
  /\ ch[s][c].st = "fwd"
  /\ ch[s][c].dn = "run"
  /\ ch[s][c].tq # <<>>
  /\ ~PipeClosed(s)
  /\ pout[s] = <<>>
  /\ pout' = [pout EXCEPT ![s] = <<Data(c, Head(ch[s][c].tq))>>]
  /\ ch' = [ch EXCEPT ![s][c].tq = Tail(@)]
  /\ UNCHANGED <<plan, um, sshConfig, cpos, chq, lpc, hpc, input, builder, up, pin, down, tr,
                 eng, c2t, t2c, regVars, shutVars, crashed, histVars>>

\* target -> channel ends: the target closed its side, or the write to the
\* channel failed.  The buffer goes back to its pool; nothing is closed here.
ChanDnEnd(s, c) ==
  /\ Alive
  /\ ch[s][c].st = "fwd"
  /\ ch[s][c].dn = "run"
  /\ \/ ch[s][c].tq = <<>> /\ ~ch[s][c].topen
     \/ ch[s][c].tq # <<>> /\ PipeClosed(s)
  /\ ch' = [ch EXCEPT ![s][c].dn = "done", ![s][c].tq = <<>>]
  /\ leased' = [leased EXCEPT !.ssh = @ - 1]
  /\ UNCHANGED <<plan, um, sshConfig, cpos, chq, lpc, sessVars, regVars, shutVars, crashed,
                 calls, sig, lateAdd, authed, pairs, flow>>

\* The wait over as soon as one of the two directions has ended.
ChanJoin_OneDirection(s, c) ==
  /\ Alive
  /\ ch[s][c].st = "fwd"
  /\ ch[s][c].up = "done" \/ ch[s][c].dn = "done"
  /\ pout[s] = <<>> \/ PipeClosed(s)
  /\ ch' = [ch EXCEPT ![s][c].st = "closed", ![s][c].topen = FALSE]
  /\ pout' = [pout EXCEPT ![s] = IF PipeClosed(s) THEN @ ELSE <<ChanClose(c)>>]
  /\ UNCHANGED <<plan, um, sshConfig, cpos, chq, lpc, hpc, input, builder, up, pin, down, tr,
                 eng, c2t, t2c, regVars, shutVars, crashed, histVars>>

\* wg.Wait() in ForwardData returns: targetConn.Close(), ch.Close().
ChanJoin(s, c) ==
  /\ Alive
  /\ ch[s][c].st = "fwd"
  /\ ch[s][c].up = "done"
  /\ ch[s][c].dn = "done"
  /\ pout[s] = <<>> \/ PipeClosed(s)
  /\ ch' = [ch EXCEPT ![s][c].st = "closed", ![s][c].topen = FALSE]
  /\ pout' = [pout EXCEPT ![s] = IF PipeClosed(s) THEN @ ELSE <<ChanClose(c)>>]
  /\ UNCHANGED <<plan, um, sshConfig, cpos, chq, lpc, hpc, input, builder, up, pin, down, tr,
                 eng, c2t, t2c, regVars, shutVars, crashed, histVars>>

\* The echo service hangs up, of its own accord (the relay has closed nothing
\* yet), once its peer has stopped sending and everything it received has been
\* sent back and read.
TargetClose(s, c) ==
  /\ Alive
  /\ ch[s][c].st = "fwd"
  /\ ch[s][c].topen
  /\ ch[s][c].up = "done"
  /\ ch[s][c].tq = <<>>
  /\ ch' = [ch EXCEPT ![s][c].topen = FALSE]
  /\ UNCHANGED <<plan, um, sshConfig, cpos, chq, lpc, sessVars, regVars, shutVars, crashed,
                 histVars>>

(***************************************************************************)
(* StartServer after the signal: s.cancel(), then s.Shutdown().            *)
(***************************************************************************)
\* <-c, s.cancel()
Cancel ==
  /\ Alive
  /\ spc = "run"
  /\ ctxDone' = TRUE
  /\ spc' = "cancelled"
  /\ UNCHANGED <<plan, um, sshConfig, chanVars, lpc, sessVars, regVars, snap, visited, crashed, histVars>>

\* Shutdown is invoked: conns.Range starts.
ShutdownBegin ==
  /\ Alive
  /\ spc = "cancelled"
  /\ spc' = "range"
  /\ snap' = conns
  /\ visited' = {}
  /\ sig' = LET reg == {s \in conns : eng[s] \in {"chans", "closed"}}
             IN [reg |-> reg,
                 blocked |-> reg # {} /\ \A s \in reg : /\ hpc[s] = "relay"
                                                         /\ c2t[s] = "run"
                                                         /\ t2c[s] = "run"
                                                         /\ ~tr[s].client
                                                         /\ ~tr[s].peer
                                                         /\ ~PipeClosed(s)]
  /\ UNCHANGED <<plan, um, sshConfig, chanVars, lpc, sessVars, regVars, ctxDone, crashed, calls, lateAdd,
                 authed, pairs, flow, leased>>

\* Range calls back for a key it has not visited yet: sess.Close().
RangeVisit(s) ==
  /\ Alive
  /\ spc = "range"
  /\ s \in conns \ visited
  /\ visited' = visited \cup {s}
  /\ tr' = [tr EXCEPT ![s] = SessionClose(@)]
  /\ UNCHANGED <<plan, um, sshConfig, chanVars, lpc, hpc, input, builder, up, pin, pout, down, eng, c2t,
                 t2c, regVars, ctxDone, spc, snap, crashed, histVars>>

\* Range is over: every key that was there when it started and still is has been
\* visited (a key stored meanwhile may or may not have been).
RangeEnd ==
  /\ Alive
  /\ spc = "range"
  /\ (snap \cap conns) \subseteq visited
  /\ spc' = "wait"
  /\ snap' = {}
  /\ visited' = {}
  /\ UNCHANGED <<plan, um, sshConfig, chanVars, lpc, sessVars, regVars, ctxDone, crashed, histVars>>

\* s.wg.Wait() returns; Shutdown and StartServer return and the process exits.
ShutdownReturn ==
  /\ Alive
  /\ spc = "wait"
  /\ wg = 0
  /\ spc' = "returned"
  /\ UNCHANGED <<plan, um, sshConfig, chanVars, lpc, sessVars, regVars, ctxDone, snap, visited, crashed,
                 histVars>>

Next ==
  \/ Cancel \/ ShutdownBegin \/ RangeEnd \/ ShutdownReturn
  \/ \E s \in Sessions : RangeVisit(s)
  \/ \E s \in Sessions : Accept(s)
  \/ \E s \in Sessions : ClientClose(s)
  \/ \E s \in Sessions : ReadHeader(s)
  \/ \E s \in Sessions : Upgrade(s)
  \/ \E s \in Sessions : Respond(s)
  \/ \E s \in Sessions : C2tCopy(s)
  \/ \E s \in Sessions : C2tEnd(s)
  \/ \E s \in Sessions : T2cCopy(s)
  \/ \E s \in Sessions : T2cEnd(s)
  \/ \E s \in Sessions : RelayJoin(s)
  \/ \E s \in Sessions : RemoveDelete(s)
  \/ \E s \in Sessions : RemoveWgDone(s)
  \/ \E s \in Sessions : EngHsRead(s)
  \/ \E s \in Sessions : EngHsFail(s)
  \/ \E s \in Sessions : EngHsDone(s)
  \/ \E s \in Sessions : AddSelect(s)
  \/ \E s \in Sessions : AddStore(s)
  \/ \E s \in Sessions : AddWgAdd(s)
  \/ \E s \in Sessions : EngChansEnd(s)

Spec == Init /\ [][Next]_vars

(***************************************************************************)
(* Fair scheduling: every task of the program (a goroutine) that can take  *)
(* a step eventually takes one.  Clients and the operator's signal are the *)
(* environment and owe nothing.                                            *)
(***************************************************************************)
HandleTask(s) ==
  \/ ReadHeader(s) \/ Upgrade(s) \/ Respond(s) \/ RelayJoin(s)
  \/ RemoveDelete(s) \/ RemoveWgDone(s)

C2tTask(s) == C2tCopy(s) \/ C2tEnd(s)

T2cTask(s) == T2cCopy(s) \/ T2cEnd(s)

EngineTask(s) ==
  \/ EngHsRead(s) \/ EngHsFail(s) \/ EngHsDone(s)
  \/ AddSelect(s) \/ AddStore(s) \/ AddWgAdd(s) \/ EngChansEnd(s)

ShutdownTask ==
  \/ ShutdownBegin \/ RangeEnd \/ ShutdownReturn
  \/ \E s \in Sessions : RangeVisit(s)

Fairness ==
  /\ WF_vars(ShutdownTask)
  /\ \A s \in Sessions :
       /\ WF_vars(HandleTask(s))
       /\ WF_vars(C2tTask(s))
       /\ WF_vars(T2cTask(s))
       /\ WF_vars(EngineTask(s))

(***************************************************************************)
(* Both listeners.  ListenAndServe starts listenTCP and listenTLS, each in  *)
(* its own goroutine running serveListener; a session is accepted on       *)
(* either.  The first client is any of the lifecycle clients, the second   *)
(* sends a plain request.                                                  *)
(***************************************************************************)
InitServer ==
  /\ \E c \in LifecycleClients : plan = [s \in Sessions |-> IF s = 1 THEN c ELSE ClientPlain]
  /\ InitCommon

NextServer ==
  \/ Next
  \/ ListenerStop
  \/ TLSSelect
  \/ \E s \in Sessions : TLSAccept(s)

\* The same with the errors Accept can return.
SpecListen ==
  /\ InitServer
  /\ [][NextServer \/ AcceptTimeout \/ \E l \in {"tcp", "tls"} : AcceptError(l)]_vars

\* The two accept loops are tasks of the program like any other.
FairServer ==
  /\ InitServer
  /\ [][NextServer]_vars
  /\ Fairness
  /\ WF_vars(ListenerStop)
  /\ WF_vars(TLSSelect)

(***************************************************************************)
(* The user database under the management commands (add-user, remove-user, *)
(* enable-user, disable-user and the shell's password command).  Every     *)
(* operation holds db.mutex from its first to its last statement.  hashed: *)
(* bcrypt made a hash; saved: saveToFile returned nil.                     *)
(***************************************************************************)
AddUser(username, password, hashed, saved) ==
  /\ LET users == um.users
         user == [Enabled |-> TRUE, PasswordHash |-> HashOf(password)]
         stored == [n \in DOMAIN users \cup {username} |->
                      IF n = username THEN user ELSE users[n]]
         rolledBack == [n \in DOMAIN stored \ {username} |-> stored[n]]
     IN um' = IF username \in DOMAIN users
                THEN [users |-> users, err |-> "user already exists"]
              ELSE IF username = ""
                THEN [users |-> users, err |-> "username cannot be empty"]
              ELSE IF Len(password) < 4
                THEN [users |-> users, err |-> "password must be at least 4 characters long"]
              ELSE IF ~hashed
                THEN [users |-> users, err |-> "failed to hash password"]
              ELSE IF ~saved
                THEN [users |-> rolledBack, err |-> "failed to save user database"]
              ELSE [users |-> stored, err |-> "nil"]
  /\ UNCHANGED <<plan, sshConfig, lpc, chanVars, sessVars, regVars, shutVars, crashed, histVars>>

RemoveUser(username, saved) ==
  /\ LET users == um.users
         deleted == [n \in DOMAIN users \ {username} |-> users[n]]
     IN um' = IF username \notin DOMAIN users
                THEN [users |-> users, err |-> "user does not exist"]
              ELSE IF ~saved
                THEN [users |-> deleted, err |-> "failed to save user database"]
              ELSE [users |-> deleted, err |-> "nil"]
  /\ UNCHANGED <<plan, sshConfig, lpc, chanVars, sessVars, regVars, shutVars, crashed, histVars>>

UpdatePassword(username, newPassword, hashed, saved) ==
  /\ LET users == um.users
         updated == [users EXCEPT ![username].PasswordHash = HashOf(newPassword)]
     IN um' = IF username \notin DOMAIN users
                THEN [users |-> users, err |-> "user does not exist"]
              ELSE IF Len(newPassword) < 4
                THEN [users |-> users, err |-> "password must be at least 4 characters long"]
              ELSE IF ~hashed
                THEN [users |-> users, err |-> "failed to hash password"]
              ELSE IF ~saved
                THEN [users |-> updated, err |-> "failed to save user database"]
              ELSE [users |-> updated, err |-> "nil"]
  /\ UNCHANGED <<plan, sshConfig, lpc, chanVars, sessVars, regVars, shutVars, crashed, histVars>>

EnableUser(username, saved) ==
  /\ LET users == um.users
         enabled == [users EXCEPT ![username].Enabled = TRUE]
     IN um' = IF username \notin DOMAIN users
                THEN [users |-> users, err |-> "user does not exist"]
              ELSE IF ~saved
                THEN [users |-> enabled, err |-> "failed to save user database"]
              ELSE [users |-> enabled, err |-> "nil"]
  /\ UNCHANGED <<plan, sshConfig, lpc, chanVars, sessVars, regVars, shutVars, crashed, histVars>>

DisableUser(username, saved) ==
  /\ LET users == um.users
         disabled == [users EXCEPT ![username].Enabled = FALSE]
     IN um' = IF username \notin DOMAIN users
                THEN [users |-> users, err |-> "user does not exist"]
              ELSE IF ~saved
                THEN [users |-> disabled, err |-> "failed to save user database"]
              ELSE [users |-> disabled, err |-> "nil"]
  /\ UNCHANGED <<plan, sshConfig, lpc, chanVars, sessVars, regVars, shutVars, crashed, histVars>>

\* The names and passwords the commands are given.
SpecUsers ==
  /\ Init
  /\ [][\E username \in {"", "alice", "bob", "carol"}, saved \in BOOLEAN :
          \/ \E password \in {"abc", "pw3456"}, hashed \in BOOLEAN :
               \/ AddUser(username, password, hashed, saved)
               \/ UpdatePassword(username, password, hashed, saved)
          \/ RemoveUser(username, saved)
          \/ EnableUser(username, saved)
          \/ DisableUser(username, saved)]_vars

(***************************************************************************)
(* Header blocks: what upgrade detection does with every block of up to    *)
(* MaxHeaderLines lines drawn from HeaderLineSet, sent by a client with    *)
(* valid credentials.                                                      *)
(***************************************************************************)
LineUpgradeEmpty == <<"U","p","g","r","a","d","e",":"," ">>
LineUpgradeSpaced == <<" ","u","p","G","R","A","D","E"," ",":","w","s"," ">>

HeaderLineSet == {LineRequest, LineUpgradeTunnel, LineUpgradeEmpty, LineUpgradeSpaced,
                  LineHost}

\* Number of lines in a header block, the request line included.
MaxHeaderLines == 3

HeaderBlocks ==
  {Block(ls) : ls \in UNION {[1..n -> HeaderLineSet] : n \in 1..MaxHeaderLines}}

HeaderClients == {Client(hdr, <<Say(Auth("alice", "pw1"))>>) : hdr \in HeaderBlocks}

\* One connection, sending any of the header blocks.
InitHdr ==
  /\ \E c \in HeaderClients : plan = [s \in Sessions |-> IF s = 1 THEN c ELSE NoClient]
  /\ InitCommon

SpecHdr == InitHdr /\ [][Next]_vars

(***************************************************************************)
(* The echo scenario: a client waits for the success response, then        *)
(* authenticates, opens a forwarding channel to the echo service, sends    *)
(* its bytes and stays until it has them back; no shutdown signal arrives. *)
(***************************************************************************)
\* The extra data of a direct-tcpip channel-open request.
Payload(addr) == PutUint32(Len(addr.host)) \o addr.host \o PutUint32(addr.port)

EchoScript ==
  <<After("resp", 0, Auth("alice", "pw1")),
    After("authok", 0, Open(1, "direct-tcpip", Payload(EchoAddr))),
    After("confirm", 1, Data(1, <<112, 105>>)),
    After("confirm", 1, Data(1, <<110, 103>>))>>

\* The block that is exactly "Upgrade: tunnel" CRLF CRLF, and the one that has a
\* request line before the field.
ClientEchoBare == Client(Block(<<LineUpgradeTunnel>>), EchoScript)
ClientEcho == Client(Block(<<LineRequest, LineUpgradeTunnel>>), EchoScript)
ClientEchoHost == Client(Block(<<LineRequest, LineHost, LineUpgradeTunnel>>), EchoScript)
EchoClients == {ClientEchoBare, ClientEcho, ClientEchoHost}

InitEcho ==
  /\ \E c \in EchoClients : plan = [s \in Sessions |-> IF s = 1 THEN c ELSE NoClient]
  /\ InitCommon

\* With no signal and a client that stays, Shutdown never starts and the
\* handshake never finds the pipe closed under it.
NextEcho ==
  \/ \E s \in Sessions : Accept(s)
  \/ \E s \in Sessions : ClientSend(s)
  \/ \E s \in Sessions : ClientDone(s)
  \/ \E s \in Sessions : ReadHeader(s)
  \/ \E s \in Sessions : Upgrade(s)
  \/ \E s \in Sessions : Respond(s)
  \/ \E s \in Sessions : C2tCopy(s)
  \/ \E s \in Sessions : C2tEnd(s)
  \/ \E s \in Sessions : T2cCopy(s)
  \/ \E s \in Sessions : T2cEnd(s)
  \/ \E s \in Sessions : RelayJoin(s)
  \/ \E s \in Sessions : RemoveDelete(s)
  \/ \E s \in Sessions : RemoveWgDone(s)
  \/ \E s \in Sessions : EngHsRead(s)
  \/ \E s \in Sessions : EngHsDone(s)
  \/ \E s \in Sessions : AddSelect(s)
  \/ \E s \in Sessions : AddStore(s)
  \/ \E s \in Sessions : AddWgAdd(s)
  \/ \E s \in Sessions : EngMux(s)
  \/ \E s \in Sessions : ChanExamine(s)
  \/ \E s \in Sessions : EngChansEnd(s)
  \/ \E s \in Sessions : \E c \in ChanIds : ChanDial(s, c)
  \/ \E s \in Sessions : \E c \in ChanIds : ChanUpCopy(s, c)
  \/ \E s \in Sessions : \E c \in ChanIds : ChanUpEnd(s, c)
  \/ \E s \in Sessions : \E c \in ChanIds : ChanDnCopy(s, c)
  \/ \E s \in Sessions : \E c \in ChanIds : ChanDnEnd(s, c)
  \/ \E s \in Sessions : \E c \in ChanIds : ChanJoin(s, c)
  \/ \E s \in Sessions : \E c \in ChanIds : TargetClose(s, c)

\* The tasks of the channel layer, and the client as far as it follows its script.
MuxTask(s) == EngMux(s)
ChannelsTask(s) == ChanExamine(s)
ForwardTask(s, c) == ChanDial(s, c) \/ ChanJoin(s, c)
ChanUpTask(s, c) == ChanUpCopy(s, c) \/ ChanUpEnd(s, c)
ChanDnTask(s, c) == ChanDnCopy(s, c) \/ ChanDnEnd(s, c)

FairnessEcho ==
  /\ Fairness
  /\ \A s \in Sessions :
       /\ WF_vars(ClientSend(s))
       /\ WF_vars(MuxTask(s))
       /\ WF_vars(ChannelsTask(s))
       /\ \A c \in ChanIds :
            /\ WF_vars(ForwardTask(s, c))
            /\ WF_vars(ChanUpTask(s, c))
            /\ WF_vars(ChanDnTask(s, c))

FairEcho == InitEcho /\ [][NextEcho]_vars /\ FairnessEcho

(***************************************************************************)
(* Channel-open requests of every kind: other channel types, payloads that *)
(* are too short, a target that cannot be reached, each followed by a      *)
(* request for the echo service.  Every request has a channel id of its    *)
(* own.  The clients stay until they have their echo.                      *)
(***************************************************************************)
\* An address nothing listens on.
DeadAddr == [host |-> <<100>>, port |-> 9]

\* A payload that ends inside the host, and one whose host length is 2^32-8.
PayloadCutShort == <<0, 0, 0, 5, 104>>
PayloadHugeLength == <<255, 255, 255, 248, 104, 0, 0, 0, 7>>

ClientReverse ==
  Client(Block(<<LineRequest, LineUpgradeTunnel>>),
         <<After("resp", 0, Auth("alice", "pw1")),
           After("authok", 0, Open(1, "forwarded-tcpip", Payload(EchoAddr))),
           After("reject", 1, Open(2, "session", <<>>)),
           After("reject", 2, Open(3, "direct-tcpip", Payload(EchoAddr))),
           After("confirm", 3, Data(3, <<112>>))>>)

ClientShort ==
  Client(Block(<<LineRequest, LineUpgradeTunnel>>),
         <<After("resp", 0, Auth("alice", "pw1")),
           After("authok", 0, Open(1, "direct-tcpip", <<0, 0>>)),
           After("reject", 1, Open(2, "direct-tcpip", PayloadCutShort)),
           After("reject", 2, Open(3, "direct-tcpip", PayloadHugeLength))>>)

ClientMalformedThenValid ==
  Client(Block(<<LineRequest, LineUpgradeTunnel>>),
         <<After("resp", 0, Auth("alice", "pw1")),
           After("authok", 0, Open(1, "direct-tcpip", Payload(EchoAddr))),
           After("confirm", 1, Data(1, <<112>>)),
           After("confirm", 1, Open(2, "direct-tcpip", PayloadCutShort)),
           After("reject", 2, Data(1, <<105>>)),
           After("reject", 2, Open(3, "direct-tcpip", Payload(EchoAddr))),
           After("confirm", 3, Data(3, <<110>>))>>)

ClientUnreachable ==
  Client(Block(<<LineRequest, LineUpgradeTunnel>>),
         <<After("resp", 0, Auth("alice", "pw1")),
           After("authok", 0, Open(1, "direct-tcpip", Payload(EchoAddr))),
           After("confirm", 1, Data(1, <<112>>)),
           After("confirm", 1, Open(2, "direct-tcpip", Payload(DeadAddr))),
           After("close", 2, Data(1, <<105>>)),
           After("close", 2, Open(3, "direct-tcpip", Payload(EchoAddr))),
           After("confirm", 3, Data(3, <<110>>))>>)

ChanClients == {ClientEcho, ClientReverse, ClientShort, ClientMalformedThenValid,
                ClientUnreachable}

InitChan ==
  /\ \E c \in ChanClients : plan = [s \in Sessions |-> IF s = 1 THEN c ELSE NoClient]
  /\ InitCommon

SpecChan == InitChan /\ [][NextEcho]_vars

FairChan == InitChan /\ [][NextEcho]_vars /\ FairnessEcho

(***************************************************************************)
(* Payloads of every shape that parses: a host of 0 to 4 bytes, a port     *)
(* field anywhere in the range of a uint32, and bytes after the port.      *)
(***************************************************************************)
ParseClients ==
  {ClientEcho} \cup
  {Client(Block(<<LineRequest, LineUpgradeTunnel>>),
          <<After("resp", 0, Auth("alice", "pw1")),
            After("authok", 0, Open(1, "direct-tcpip", PutUint32(Len(h)) \o h \o p \o t)),
            After("confirm", 1, Data(1, <<112>>))>>) :
     h \in {<<>>, <<104>>, <<104, 105>>, <<0, 0, 0, 1>>},
     p \in {<<0, 0, 0, 0>>, <<0, 0, 0, 7>>, <<0, 0, 255, 255>>, <<0, 1, 0, 7>>,
            <<128, 0, 0, 7>>, <<255, 255, 255, 255>>},
     t \in {<<>>, <<9>>, <<0, 0, 0, 1, 104>>}}

InitParse ==
  /\ \E c \in ParseClients : plan = [s \in Sessions |-> IF s = 1 THEN c ELSE NoClient]
  /\ InitCommon

SpecParse == InitParse /\ [][NextEcho]_vars

(***************************************************************************)
(* The relay between a client and the engine, with clients that may leave  *)
(* at any moment: the echo client, and one whose passwords do not validate.*)
(***************************************************************************)
ClientTwoTries ==
  Client(Block(<<LineRequest, LineUpgradeTunnel>>),
         <<After("resp", 0, Auth("bob", "pw2")), After("resp", 0, Auth("bob", "pw1"))>>)

RelayClients == {ClientEcho, ClientTwoTries}

InitRelay ==
  /\ \E c \in RelayClients : plan = [s \in Sessions |-> IF s = 1 THEN c ELSE NoClient]
  /\ InitCommon

NextRelay ==
  \/ \E s \in Sessions : Accept(s)
  \/ \E s \in Sessions : ClientSend(s)
  \/ \E s \in Sessions : ClientClose(s)
  \/ \E s \in Sessions : ReadHeader(s)
  \/ \E s \in Sessions : Upgrade(s)
  \/ \E s \in Sessions : Respond(s)
  \/ \E s \in Sessions : C2tCopy(s)
  \/ \E s \in Sessions : C2tEnd(s)
  \/ \E s \in Sessions : T2cCopy(s)
  \/ \E s \in Sessions : T2cEnd(s)
  \/ \E s \in Sessions : RelayJoin(s)
  \/ \E s \in Sessions : RemoveDelete(s)
  \/ \E s \in Sessions : RemoveWgDone(s)
  \/ \E s \in Sessions : EngHsRead(s)
  \/ \E s \in Sessions : EngHsFail(s)
  \/ \E s \in Sessions : EngHsDone(s)
  \/ \E s \in Sessions : AddSelect(s)
  \/ \E s \in Sessions : AddStore(s)
  \/ \E s \in Sessions : AddWgAdd(s)
  \/ \E s \in Sessions : EngMux(s)
  \/ \E s \in Sessions : ChanExamine(s)
  \/ \E s \in Sessions : EngChansEnd(s)
  \/ \E s \in Sessions : \E c \in ChanIds : ChanDial(s, c)
  \/ \E s \in Sessions : \E c \in ChanIds : ChanUpCopy(s, c)
  \/ \E s \in Sessions : \E c \in ChanIds : ChanUpEnd(s, c)
  \/ \E s \in Sessions : \E c \in ChanIds : ChanDnCopy(s, c)
  \/ \E s \in Sessions : \E c \in ChanIds : ChanDnEnd(s, c)
  \/ \E s \in Sessions : \E c \in ChanIds : ChanJoin(s, c)
  \/ \E s \in Sessions : \E c \in ChanIds : TargetClose(s, c)

SpecRelay == InitRelay /\ [][NextRelay]_vars

(***************************************************************************)
(* Handshakes that succeed and handshakes that fail, each with a request   *)
(* for a channel: the echo client, a client that asks for its channel      *)
(* before it has offered a password, one whose account is disabled, one    *)
(* with a wrong password and then an unknown name, and one that gets its   *)
(* password right at the second attempt.  The clients may leave at any     *)
(* moment.                                                                 *)
(***************************************************************************)
HandshakeClients ==
  {ClientEcho,
   Client(Block(<<LineRequest, LineUpgradeTunnel>>),
          <<After("resp", 0, Open(1, "direct-tcpip", Payload(EchoAddr))),
            After("resp", 0, Auth("alice", "pw1")),
            After("resp", 0, Data(1, <<112>>))>>),
   Client(Block(<<LineRequest, LineUpgradeTunnel>>),
          <<After("resp", 0, Auth("bob", "pw2")),
            After("resp", 0, Open(1, "direct-tcpip", Payload(EchoAddr))),
            After("resp", 0, Data(1, <<112>>))>>),
   Client(Block(<<LineRequest, LineUpgradeTunnel>>),
          <<After("resp", 0, Auth("alice", "pw2")),
            After("resp", 0, Auth("carol", "pw1")),
            After("resp", 0, Open(1, "direct-tcpip", Payload(EchoAddr)))>>),
   Client(Block(<<LineRequest, LineUpgradeTunnel>>),
          <<After("resp", 0, Auth("carol", "pw1")),
            After("resp", 0, Auth("alice", "pw1")),
            After("authok", 0, Open(1, "direct-tcpip", Payload(EchoAddr)))>>)}

InitHandshake ==
  /\ \E c \in HandshakeClients : plan = [s \in Sessions |-> IF s = 1 THEN c ELSE NoClient]
  /\ InitCommon

SpecHandshake == InitHandshake /\ [][NextRelay]_vars

(***************************************************************************)
(* Header reads at the limits: the client sends more than BufferSize bytes *)
(* without the terminator or with it, or stops sending (it goes away, or   *)
(* the read deadline of ClientReadTimeout passes).                         *)
(***************************************************************************)
\* A line of n bytes without a line feed.
LongLine(n) == [i \in 1..n |-> "a"]

\* A request line, then a line that takes the block past BufferSize.
ClientOversized == Client(LineRequest \o CRLF \o LongLine(BufferSize) \o CRLF, <<>>)
\* More than BufferSize bytes and no line feed among them.
ClientNoLineFeed == Client(LongLine(BufferSize + 1), <<>>)
\* Nothing at all, and a block that stops before its terminator.
ClientSilent == Client(<<>>, <<>>)
ClientCutShort == Client(LineRequest \o CRLF \o LineHost \o CRLF, <<>>)

\* A block, padded with a line of blanks, that is BufferSize bytes long before
\* the empty line that ends it: the terminator takes it to BufferSize + 2.
ClientPadded ==
  Client(LineRequest \o CRLF \o [i \in 1..(BufferSize - Len(LineRequest) - 4) |-> " "]
           \o CRLF \o CRLF,
         <<>>)

ReadClients == {ClientOversized, ClientNoLineFeed, ClientSilent, ClientCutShort,
                ClientPadded, ClientValid}

InitRead ==
  /\ \E c \in ReadClients : plan = [s \in Sessions |-> IF s = 1 THEN c ELSE NoClient]
  /\ InitCommon

SpecRead == InitRead /\ [][Next]_vars

(***************************************************************************)
(* Properties.                                                             *)
(***************************************************************************)
NoCalls == [add |-> 0, remove |-> 0]

\* The client of session s offers a password that validates.
ValidCredentials(s) ==
  \E i \in DOMAIN plan[s].script :
    /\ plan[s].script[i].m.k = "auth"
    /\ Authenticate(Users, plan[s].script[i].m.a, plan[s].script[i].m.b)

\* The session s is the only one that has called into the registry so far.
OnlyCaller(s) == \A r \in Sessions \ {s} : calls[r] = NoCalls

\* C1: when a session's handshake is rejected, and no other session has used the
\* registry, the active count and the completion-wait counter stay 0 in every
\* state, the session's relay teardown included.
C1_RejectedLeavesRegistryAlone ==
  \A s \in Sessions :
    (eng[s] = "failed" /\ ~ValidCredentials(s) /\ OnlyCaller(s))
      => (activeCount = 0 /\ wg = 0 /\ conns = {})

\* C2: Add is invoked for a session only after the engine has validated that
\* session's password and its handshake has returned successfully.
C2_AddOnlyAfterAuth ==
  \A s \in Sessions :
    (calls[s].add > 0 \/ s \in conns \/ eng[s] \in {"cb", "store", "wgadd"})
      => (s \in authed /\ ValidCredentials(s))

C2_Witness == \E s \in Sessions : calls[s].add = 1 /\ s \in conns /\ s \in authed

\* C3: for a registered session Remove comes after Add: Remove is never invoked
\* while the session's Add has yet to take effect, and no registry entry of a
\* session survives the end of its teardown.
C3_RemoveAfterAdd ==
  \A s \in Sessions :
    /\ ~(calls[s].remove > 0 /\ eng[s] \in {"store", "wgadd"})
    /\ ~(hpc[s] = "done" /\ s \in conns)

\* C4: Add is invoked at most once and Remove at most once for each session, so
\* the counters never hold more than one count per session.
C4_AtMostOnce ==
  /\ \A s \in Sessions : calls[s].add <= 1 /\ calls[s].remove <= 1
  /\ wg <= Cardinality({s \in Sessions : calls[s].add = 1})
  /\ activeCount <= Cardinality({s \in Sessions : calls[s].add = 1})

C4_Witness == \E s \in Sessions : calls[s].add = 1 /\ calls[s].remove = 1 /\ hpc[s] = "done"

\* C5: when Shutdown returns, every session that was registered when Shutdown
\* was invoked has executed Remove.
C5_ShutdownWaitsForRegistered ==
  spc = "returned" => \A s \in sig.reg : calls[s].remove >= 1

\* C7: an Add invoked once Shutdown has been invoked is a no-op: it returns at
\* the select and the session is not stored.
C7_AddAfterShutdownNoOp ==
  \A s \in lateAdd : eng[s] \in {"chans", "closed"} /\ s \notin conns

C7_Witness == \E s \in lateAdd : eng[s] = "chans" /\ hpc[s] = "relay"

\* C8: from the empty registry, with no shutdown initiated, after any sequence
\* of whole, non-overlapping pairs Add(s); Remove(s) the active count is 0, the
\* map is empty and the completion-wait counter is 0.
C8_PairsReturnToZero ==
  (pairs.clean /\ pairs.busy = 0) => (activeCount = 0 /\ conns = {} /\ wg = 0)

C8_Witness ==
  /\ pairs.clean /\ pairs.busy = 0
  /\ \A s \in Sessions : calls[s] = [add |-> 1, remove |-> 1]

\* C6: once Shutdown has been invoked with every registered session blocked in
\* its relay loops, the process does not stop for good (it dies of a panic)
\* before both loops of each of them have ended, each has executed Remove, the
\* active count is 0 and Shutdown has returned.
C6_AllGone ==
  /\ spc = "returned"
  /\ activeCount = 0
  /\ \A s \in sig.reg : c2t[s] = "done" /\ t2c[s] = "done" /\ hpc[s] = "done"

C6_ShutdownCompletes == (sig.blocked /\ crashed) => C6_AllGone

\* A line of a header block carries the field Upgrade: the text before its first
\* colon is that name, whatever the case and the blanks around it.
CarriesUpgrade(line) ==
  LET i == IndexByte(line, ":")
  IN i > 0 /\ ToLower(TrimSpace(SubSeq(line, 1, i - 1))) = ToLower(UpgradeName)
UpgradeValue(line) == TrimSpace(SubSeq(line, IndexByte(line, ":") + 1, Len(line)))

\* Some line of the block carries Upgrade with a non-empty value.
UpgradeOnSomeLine(hdr) ==
  LET ls == SplitCRLF(hdr)
  IN \E i \in DOMAIN ls : CarriesUpgrade(ls[i]) /\ UpgradeValue(ls[i]) # <<>>

\* The first line after the request line that carries Upgrade has a non-empty value.
UpgradeAfterRequestLine(hdr) ==
  LET ls == SplitCRLF(hdr)
  IN \E i \in 2..Len(ls) :
       /\ CarriesUpgrade(ls[i]) /\ UpgradeValue(ls[i]) # <<>>
       /\ \A j \in 2..(i - 1) : ~CarriesUpgrade(ls[j])

\* The session s has taken the tunnel path as far as its environment let it:
\* the pipe is made and is the session's target, the engine has been started,
\* and the success response is written, unless the client had gone by then.
\* Nothing of it happens when the SSH configuration cannot be built.
TookTunnelPath(s) ==
  \/ eng[s] = "nocfg"
  \/ /\ eng[s] # "none"
     /\ tr[s].target
     /\ \/ hpc[s] = "respond"
        \/ \E i \in DOMAIN down[s] : down[s][i] = Resp101
        \/ tr[s].peer

PastDetection(s) == plan[s].on /\ hpc[s] \notin {"idle", "read", "parsed"}

\* C9 as stated: for every header block that ends in CRLFCRLF and has, on any of
\* its lines, a field named Upgrade (case ignored) with a non-empty value, the
\* session takes the tunnel path: pipe, engine, success response.  (The failures
\* of the environment, a configuration that cannot be built and a client that
\* has gone, are not held against the statement.)
C9_AnyLineUpgradeTunnels ==
  \A s \in Sessions :
    (PastDetection(s) /\ HasSuffix(plan[s].hdr, CRLFCRLF) /\ UpgradeOnSomeLine(plan[s].hdr))
      => TookTunnelPath(s)

\* C9 amended: for every header block that ends in CRLFCRLF and in which the
\* first line after the request line that carries a field named Upgrade (case
\* ignored) has a non-empty value, the session takes the tunnel path, whatever
\* the value: it makes the pipe and, when the SSH configuration can be built,
\* starts the engine and writes the success response, which fails only for a
\* client that has gone.
C9_UpgradeAfterRequestLineTunnels ==
  \A s \in Sessions :
    (PastDetection(s) /\ HasSuffix(plan[s].hdr, CRLFCRLF)
       /\ UpgradeAfterRequestLine(plan[s].hdr))
      => TookTunnelPath(s)

\* The field is on the third line, in mixed case between blanks, with a value
\* other than tunnel.
C9_Witness ==
  \E s \in Sessions :
    /\ plan[s].hdr = Block(<<LineRequest, LineHost, LineUpgradeSpaced>>)
    /\ hpc[s] = "relay"
    /\ eng[s] = "hs"
    /\ tr[s].target
    /\ \E i \in DOMAIN down[s] : down[s][i] = Resp101

C11_NoUpgradeClosesSilently ==
  \A s \in Sessions :
    (PastDetection(s) /\ HasSuffix(plan[s].hdr, CRLFCRLF)
       /\ ~UpgradeOnSomeLine(plan[s].hdr))
      => /\ hpc[s] = "done"
         /\ down[s] = <<>>
         /\ tr[s].client
         /\ ~tr[s].target /\ ~PipeClosed(s)
         /\ eng[s] = "none"
         /\ c2t[s] = "idle" /\ t2c[s] = "idle"
         /\ calls[s] = NoCalls

\* The only Upgrade field of the block has an empty value.
C11_Witness ==
  \E s \in Sessions :
    /\ plan[s].hdr = Block(<<LineRequest, LineHost, LineUpgradeEmpty>>)
    /\ hpc[s] = "done"
    /\ tr[s].client
    /\ down[s] = <<>>

\* The positions of a byte string at which a header terminator ends.
Terminators(hdr) ==
  {e \in 4..Len(hdr) : hdr[e] = LF /\ hdr[e - 1] = CR /\ hdr[e - 2] = LF /\ hdr[e - 3] = CR}

\* What the client sent passes the maximum size at a line end before any terminator.
ExceedsLimit(hdr) ==
  \E e \in (BufferSize + 1)..Len(hdr) :
    hdr[e] = LF /\ \A t \in Terminators(hdr) : t > e

\* What the client sent stays within the maximum size and has no terminator:
\* the read of the header ends in an error (end of stream, or the deadline).
Incomplete(hdr) == Len(hdr) <= BufferSize /\ Terminators(hdr) = {}

\* No upgrade has happened for the session: no pipe, no engine, no success response.
NoUpgrade(s) ==
  /\ eng[s] = "none"
  /\ ~tr[s].target /\ ~PipeClosed(s)
  /\ \A i \in DOMAIN down[s] : down[s][i] # Resp101

\* C12: when the accumulated header exceeds the maximum size without the
\* terminator having been reached, the session writes the header-too-large
\* response, performs no upgrade, and the client transport is closed by the
\* time the session's handling task has ended.
C12_TooLargeAnsweredAndClosed ==
  \A s \in Sessions :
    (plan[s].on /\ hpc[s] = "done" /\ ExceedsLimit(plan[s].hdr))
      => (down[s] = <<Resp431>> /\ NoUpgrade(s) /\ tr[s].client)

\* C13: when a read error or the read deadline occurs while the header is
\* being read, the session writes nothing to the client, performs no upgrade,
\* and the client transport is closed by the time the session's handling task
\* has ended.
C13_ReadErrorClosed ==
  \A s \in Sessions :
    (plan[s].on /\ hpc[s] = "done" /\ Incomplete(plan[s].hdr))
      => (down[s] = <<>> /\ NoUpgrade(s) /\ tr[s].client)

\* Relay has been entered for the session, and its wait for the loops is over.
RelayEntered(s) == c2t[s] # "idle"
RelayWaited(s) == hpc[s] \in {"remove", "wgdone", "done"} /\ RelayEntered(s)

\* C16: in Relay the final close of both transports and the call of Remove
\* come only after both copy loops have returned, and Remove is executed
\* exactly once per invocation of Relay: never twice, and once by the time
\* Relay has returned.
C16_TeardownAfterBothLoops ==
  \A s \in Sessions :
    /\ (hpc[s] \in {"remove", "wgdone"} \/ calls[s].remove > 0)
         => (c2t[s] = "done" /\ t2c[s] = "done" /\ tr[s].client /\ tr[s].proxy)
    /\ calls[s].remove <= 1
    /\ hpc[s] = "wgdone" => calls[s].remove = 1
    /\ (hpc[s] = "done" /\ RelayEntered(s)) => calls[s].remove = 1

C16_Witness ==
  \E s \in Sessions :
    /\ hpc[s] = "done"
    /\ c2t[s] = "done" /\ t2c[s] = "done"
    /\ tr[s].client /\ tr[s].proxy
    /\ calls[s].remove = 1

\* C15: once a copy loop of Relay has ended, the other loop ends and Relay
\* returns, with no further input or close from either peer: in particular
\* the process never dies with a loop ended and its Relay not returned.
C15_LoopEndLeadsToReturn ==
  \A s \in Sessions :
    ((c2t[s] = "done" \/ t2c[s] = "done") /\ crashed) => hpc[s] = "done"

\* A: what the client has produced for the tunnel; what the client has
\* received from it (the success response comes first and is not part of it).
Produced(s) == [i \in 1..(cpos[s] - 1) |-> plan[s].script[i].m]
ClientGot(s) == IF down[s] = <<>> THEN <<>> ELSE Tail(down[s])

IsPrefix(a, b) == Len(a) <= Len(b) /\ a = SubSeq(b, 1, Len(a))

\* C14 as stated: the client produces A, the pipe side produces B, each then
\* closes; when Relay's wait is over the pipe side has received exactly A and
\* the client exactly B, whichever side closed first.
C14_RelayDeliversExactly ==
  \A s \in Sessions :
    (RelayWaited(s) /\ tr[s].peer /\ tr[s].ssh)
      => (flow[s].in = Produced(s) /\ ClientGot(s) = flow[s].out)

\* C14 amended: the pipe side has received a prefix of A and the client a
\* prefix of B, in order, with nothing duplicated; it is all of A and all of B
\* when the client left only after it had the answer to everything it sent.
C14_RelayDeliversPrefixes ==
  \A s \in Sessions :
    RelayEntered(s) =>
      /\ IsPrefix(flow[s].in, Produced(s))
      /\ IsPrefix(ClientGot(s), flow[s].out)
      /\ (RelayWaited(s) /\ Echoed(s))
           => (flow[s].in = Produced(s) /\ ClientGot(s) = flow[s].out)

C14_Witness ==
  \E s \in Sessions :
    /\ RelayWaited(s) /\ tr[s].peer /\ tr[s].ssh
    /\ Echoed(s)
    /\ Len(flow[s].in) = 4 /\ flow[s].in = Produced(s)
    /\ Len(flow[s].out) > 4 /\ ClientGot(s) = flow[s].out

\* The channel-open requests of the client's script, and what has been
\* answered so far on a channel id (written by the engine or already with
\* the client).
Opens(s) ==
  {plan[s].script[i].m : i \in {j \in DOMAIN plan[s].script : plan[s].script[j].m.k = "open"}}
Answers(s, c) ==
  {m \in {down[s][i] : i \in DOMAIN down[s]} \cup {pout[s][i] : i \in DOMAIN pout[s]} :
     m.c = c /\ m.k \in {"confirm", "reject", "close"}}
Delivered(s, m) == \E i \in DOMAIN down[s] : down[s][i] = m

\* The payload is shorter than 4 bytes, or shorter than 4+hostLen+4 (payloads
\* here are shorter than 2^16 bytes, so any hostLen from 2^16 on is too much).
ShortPayload(p) ==
  \/ Len(p) < 4
  \/ Uint32High(p) > 0
  \/ Len(p) < 4 + Uint32Low(p) + 4

\* A request that is fit to be served: direct-tcpip, a whole payload, a target
\* that answers; and one that is malformed, and one whose target does not answer.
ValidOpen(m) ==
  /\ m.a = "direct-tcpip" /\ ~ShortPayload(m.p)
  /\ Reachable(parseDirectTCPIPExtra(m.p, 64).host, parseDirectTCPIPExtra(m.p, 64).port)
MalformedOpen(m) == m.a = "direct-tcpip" /\ ShortPayload(m.p)
DeadOpen(m) ==
  /\ m.a = "direct-tcpip" /\ ~ShortPayload(m.p)
  /\ ~Reachable(parseDirectTCPIPExtra(m.p, 64).host, parseDirectTCPIPExtra(m.p, 64).port)

\* The session's relay and the engine's channel loop are running.
TunnelUp(s) ==
  /\ ~crashed
  /\ hpc[s] = "relay" /\ c2t[s] = "run" /\ t2c[s] = "run"
  /\ eng[s] = "chans" /\ ~PipeClosed(s)

\* The client has back all the bytes it sends on the channel c.
ServedOn(s, c) ==
  ChanBytes(down[s], c) =
    ChanBytes([i \in DOMAIN plan[s].script |-> plan[s].script[i].m], c)

\* C17: a channel-open request whose type is not direct-tcpip, the reverse
\* forwarding type included, is answered with the unknown-type rejection and
\* with nothing else; it is never accepted, no target is dialled and no relay
\* started for it.
C17_OtherTypesRejected ==
  \A s \in Sessions : \A m \in Opens(s) :
    m.a # "direct-tcpip"
      => /\ ch[s][m.c] = NoChannel
         /\ Answers(s, m.c) \subseteq {Reject(m.c, "unknown channel type")}

C17_Witness ==
  \E s \in Sessions :
    /\ plan[s] = ClientReverse
    /\ Delivered(s, Reject(1, "unknown channel type"))
    /\ Delivered(s, Reject(2, "unknown channel type"))
    /\ ch[s][1] = NoChannel /\ ch[s][2] = NoChannel
    /\ ch[s][3].st = "fwd"

\* C18: for every payload shorter than 4 bytes, or shorter than 4+hostLen+4
\* with hostLen any value up to 2^32-1, parsing returns an error (it does not
\* panic), the channel is rejected and never accepted, and no target is dialled.
C18_ShortPayloadRejected ==
  \A s \in Sessions : \A m \in Opens(s) :
    MalformedOpen(m)
      => /\ ~(eng[s] = "panic" /\ chq[s] # <<>> /\ Head(chq[s]) = m)
         /\ ch[s][m.c] = NoChannel
         /\ Answers(s, m.c) \subseteq {Reject(m.c, "prohibited")}

\* C19: after the engine has rejected a channel-open request with a malformed
\* payload the connection is not aborted: as long as the client stays, the
\* relay and the channel loop keep running, whatever the client asks next,
\* and the channels accepted before stay in service.
C19_MalformedRejectKeepsConnection ==
  \A s \in Sessions : \A m \in Opens(s) :
    (MalformedOpen(m) /\ Delivered(s, Reject(m.c, "prohibited")) /\ ~tr[s].peer)
      => /\ TunnelUp(s)
         /\ \A c \in ChanIds : Delivered(s, Confirm(c)) => ch[s][c].st \in {"dial", "fwd"}

\* C20: when the dial for a channel's target fails, that channel is closed and
\* no relay is started for it, while the session's relay, the channel loop and
\* the other channels of the session keep running: the client's valid
\* requests, earlier or later, are served.
C20_DialFailureClosesThatChannel ==
  /\ [](\A s \in Sessions : \A m \in Opens(s) :
         DeadOpen(m)
           => /\ ch[s][m.c].st \in {"none", "dial", "closed"}
              /\ ch[s][m.c].up = "idle" /\ ch[s][m.c].dn = "idle" /\ ~ch[s][m.c].topen
              /\ (ch[s][m.c].st = "closed" /\ ~tr[s].peer)
                   => /\ TunnelUp(s)
                      /\ \A c \in ChanIds \ {m.c} :
                           Delivered(s, Confirm(c)) => ch[s][c].st \in {"dial", "fwd"})
  /\ \A s \in Sessions : \A c \in ChanIds :
       (\E m \in Opens(s) : DeadOpen(m) /\ ch[s][m.c].st = "dial")
         ~> /\ \E m \in Opens(s) : DeadOpen(m) /\ ch[s][m.c].st = "closed"
                                     /\ Delivered(s, ChanClose(m.c))
            /\ \A v \in Opens(s) : ValidOpen(v) => (Delivered(s, Confirm(v.c)) /\ ServedOn(s, v.c))

C20_Witness ==
  \E s \in Sessions :
    /\ plan[s] = ClientUnreachable
    /\ ch[s][2].st = "closed"
    /\ Delivered(s, ChanClose(2))
    /\ TunnelUp(s)
    /\ ch[s][1].st = "fwd" /\ ch[s][3].st = "fwd"
    /\ Echoed(s)

\* The hosts, ports and trailing bytes the round trip is checked for.
RoundTripHosts == {<<>>, <<104>>, <<104, 105>>, <<0, 0, 0, 1>>}
RoundTripPorts == {0, 7, 65535}
RoundTripTrailers == {<<>>, <<9>>, <<0, 0, 0, 1, 104>>}

\* C21: a payload that begins with uint32(n) | host | uint32(port), n the
\* length of the host and port in 0..65535, followed by any bytes or none,
\* parses to exactly (host, port) with no error, on every build; the channel
\* the engine opens for it has that host and that port.
C21_ParseRoundTrip ==
  \A h \in RoundTripHosts : \A port \in RoundTripPorts : \A t \in RoundTripTrailers :
    LET extra == Payload([host |-> h, port |-> port]) \o t
    IN /\ \A w \in IntWidths :
            parseDirectTCPIPExtra(extra, w) =
              [res |-> "ok", host |-> h, port |-> [hi |-> 0, lo |-> port]]
       /\ \A s \in Sessions : \A m \in Opens(s) :
            (m.a = "direct-tcpip" /\ m.p = extra /\ ch[s][m.c].st # "none")
              => /\ ch[s][m.c].host = h
                 /\ ch[s][m.c].port = [hi |-> 0, lo |-> port]
                 /\ BigEndianUint32(PutUint32(port)) = port

C21_Witness ==
  \E s \in Sessions : \E m \in Opens(s) :
    /\ m.p = Payload([host |-> <<0, 0, 0, 1>>, port |-> 65535]) \o <<0, 0, 0, 1, 104>>
    /\ ch[s][m.c].st = "closed"
    /\ ch[s][m.c].host = <<0, 0, 0, 1>>
    /\ ch[s][m.c].port = [hi |-> 0, lo |-> 65535]

\* The dial for the channel has failed: the channel is closed and never had a
\* copy loop.
DialFailed(s, c) == ch[s][c].st = "closed" /\ ch[s][c].up = "idle"

\* C22 as stated: of the port field of a payload that parses only the low 16
\* bits take effect, so a request for the host of the echo service whose port
\* field has the port of the echo service in its low 16 bits is dialled there
\* and the dial does not fail.
C22_Low16BitsTakeEffect ==
  \A s \in Sessions : \A c \in ChanIds :
    DialFailed(s, c)
      => [host |-> ch[s][c].host, port |-> ch[s][c].port.lo] # EchoAddr

\* C22: the port field of a payload that parses is handed to the dial step as
\* it is and never reduced to its low 16 bits: a target connection is made
\* only when the field is in 0..65535, and for every larger value the dial
\* fails and the channel is closed with no relay started.
C22_DialOnlyInRange ==
  \A s \in Sessions : \A c \in ChanIds :
    /\ (ch[s][c].st = "fwd" \/ ch[s][c].topen)
         => ch[s][c].port.hi = 0 /\ ch[s][c].port.lo \in 0..65535
    /\ (ch[s][c].st \notin {"none", "dial"} /\ ch[s][c].port.hi > 0)
         => DialFailed(s, c) /\ ~ch[s][c].topen /\ ch[s][c].dn = "idle"

C22_Witness ==
  \E s \in Sessions : \E c \in ChanIds :
    /\ ch[s][c].host = EchoAddr.host
    /\ ch[s][c].port = [hi |-> 1, lo |-> EchoAddr.port]
    /\ DialFailed(s, c)
    /\ Delivered(s, ChanClose(c))

\* The states of the engine task after its handshake has returned with
\* success and the callback has run.
PastCallback == {"chans", "closed", "panic"}

\* C23: no channel of a session is accepted and no target dialled for it
\* before the session's handshake has succeeded: whenever a channel exists,
\* the client has offered a password that validates, the engine has validated
\* it and the handshake has returned; a session whose handshake has failed
\* has no channel and no request waiting.
C23_NoDialBeforeAuth ==
  \A s \in Sessions :
    /\ \A c \in ChanIds :
         ch[s][c] # NoChannel
           => ValidCredentials(s) /\ s \in authed /\ eng[s] \in PastCallback
    /\ eng[s] \in {"none", "hs", "hsok", "failed"}
         => chq[s] = <<>> /\ \A c \in ChanIds : ch[s][c] = NoChannel /\ Answers(s, c) = {}

C23_Witness ==
  \E s \in Sessions :
    /\ ~ValidCredentials(s)
    /\ Opens(s) # {}
    /\ cpos[s] > Len(plan[s].script)
    /\ eng[s] = "failed"
    /\ hpc[s] = "relay"
    /\ \A c \in ChanIds : ch[s][c] = NoChannel

\* C24: the engine invokes the session's callback (which calls Add) once for
\* a handshake that succeeds and never for one that fails, and the callback
\* has returned before the first channel-open request of the connection is
\* examined; after a failed handshake no request is examined.
C24_CallbackOnceBeforeChannels ==
  /\ [](\A s \in Sessions :
         /\ calls[s].add <= 1
         /\ eng[s] \in {"none", "hs", "hsok", "failed"} => calls[s].add = 0
         /\ eng[s] \in PastCallback => calls[s].add = 1
         /\ (\E c \in ChanIds : ch[s][c] # NoChannel \/ Answers(s, c) # {})
              => eng[s] \in PastCallback)
  /\ [][\A s \in Sessions :
          (chq[s] # <<>> /\ chq'[s] = Tail(chq[s]))
            => eng[s] = "chans" /\ calls[s].add = 1]_vars

C24_Witness ==
  \E s \in Sessions : \E c \in ChanIds :
    /\ calls[s].add = 1
    /\ eng[s] = "chans"
    /\ ch[s][c].st = "fwd"
    /\ Delivered(s, Confirm(c))

TunnelCopies ==
  Cardinality({s \in Sessions : c2t[s] = "run"}) + Cardinality({s \in Sessions : t2c[s] = "run"})
ChannelCopies ==
  Cardinality({x \in Sessions \X ChanIds : ch[x[1]][x[2]].up = "run"})
    + Cardinality({x \in Sessions \X ChanIds : ch[x[1]][x[2]].dn = "run"})

\* C26: in every state the number of buffers out of each pool is the number
\* of copies in progress that took theirs from it: a copy gives its buffer
\* back once, when it returns, however it ends, and no buffer is out once all
\* copies have returned.
C26_LeasesMatchCopies ==
  /\ leased.tunnel = TunnelCopies
  /\ leased.ssh = ChannelCopies

C26_Witness ==
  /\ leased = [tunnel |-> 0, ssh |-> 0]
  /\ \E s \in Sessions : \E c \in ChanIds :
       /\ c2t[s] = "done" /\ t2c[s] = "done"
       /\ ch[s][c].up = "done" /\ ch[s][c].dn = "done"
       /\ flow[s].out # <<>>

\* The sessions whose engine has been started, and the configuration objects
\* built so far.
EngineStarted(s) == eng[s] \notin {"none", "nocfg"}
ConfigsBuilt == {sshConfig[s] : s \in Sessions} \ {0}

\* C27: across the upgraded sessions the transport configuration is built at
\* most once, and the engines of all sessions use the same configuration
\* object.
C27_ConfigBuiltOnce ==
  /\ Cardinality(ConfigsBuilt) <= 1
  /\ \A r, s \in Sessions :
       (EngineStarted(r) /\ EngineStarted(s)) => sshConfig[r] = sshConfig[s]

\* User databases, names and passwords the validation is checked for.
AuthDatabases ==
  {Users,
   [alice |-> [Enabled |-> FALSE, PasswordHash |-> HashOf("pw1")],
    bob |-> [Enabled |-> TRUE, PasswordHash |-> HashOf("pw1")]]}
AuthNames == {"alice", "bob", "carol", ""}
AuthPasswords == {"pw1", "pw2", ""}

\* The messages of the client's script that offer a password.
Offers(s) ==
  {plan[s].script[i].m : i \in {j \in DOMAIN plan[s].script : plan[s].script[j].m.k = "auth"}}

\* C28: password validation succeeds exactly when the database is initialised,
\* the name is in it, the account is enabled and the password matches the
\* stored hash; the engine accepts a session only on such an offer.
C28_ValidationExact ==
  /\ \A u \in AuthNames : \A pw \in AuthPasswords :
       /\ ~PasswordAuth(NilDB, u, pw)
       /\ \A db \in AuthDatabases :
            PasswordAuth(<<db>>, u, pw)
              <=> /\ u \in DOMAIN db
                  /\ db[u].Enabled
                  /\ db[u].PasswordHash = HashOf(pw)
  /\ \A s \in Sessions :
       s \in authed
         => \E m \in Offers(s) :
              /\ m.a \in DOMAIN Users
              /\ Users[m.a].Enabled
              /\ Users[m.a].PasswordHash = HashOf(m.b)

C28_Witness ==
  \E s \in Sessions :
    /\ Auth("bob", "pw2") \in Offers(s)
    /\ Users["bob"].PasswordHash = HashOf("pw2") /\ ~Users["bob"].Enabled
    /\ \E i \in DOMAIN flow[s].in : flow[s].in[i] = Auth("bob", "pw2")
    /\ eng[s] = "failed"
    /\ s \notin authed

(***************************************************************************)
(* The accept loops after the cancellation.                                *)
(***************************************************************************)
\* The process has ended: nothing of the program runs any more.
ProcessGone == ~Alive

\* C29: after the shared context is cancelled, each of the two accept loops,
\* the plain one and the TLS one, eventually returns and closes its listener
\* (or the process has ended before), whether or not a further connection
\* arrives on that listener.
C29_AcceptLoopsReturn ==
  ctxDone ~> ((lpc.tcp = "closed" /\ lpc.tls = "closed") \/ ProcessGone)

\* The same for the plain listener alone.
C29_PlainLoopReturns == ctxDone ~> (lpc.tcp = "closed" \/ ProcessGone)

(***************************************************************************)
(* The two ends of a session's pipe.                                       *)
(***************************************************************************)
\* StartServer has returned and with it main: the process has ended in good
\* order, whatever its tasks were doing.
Exited == spc = "returned"

\* C30: for every upgraded session, under fair scheduling, once the Session has
\* closed its end of the pipe the engine's handshake or channel loop ends and
\* closes the other end, and once the engine has closed its end the Session's
\* relay tears down and closes the Session's end, unless the process has
\* ended in good order before.
C30_PipeEndsFollow ==
  \A s \in Sessions :
    /\ tr[s].proxy ~> (tr[s].ssh \/ Exited)
    /\ tr[s].ssh ~> (tr[s].proxy \/ Exited)

\* The same, a process that has died of a panic excused as well.
C30_PipeEndsFollowUnlessGone ==
  \A s \in Sessions :
    /\ tr[s].proxy ~> (tr[s].ssh \/ ProcessGone)
    /\ tr[s].ssh ~> (tr[s].proxy \/ ProcessGone)

(***************************************************************************)
(* The size limit of the header.                                           *)
(***************************************************************************)
\* The bytes the client sent, up to and including the first terminator (all of
\* them when there is none), are more than BufferSize.
OverLimit(hdr) ==
  IF Terminators(hdr) = {}
  THEN Len(hdr) > BufferSize
  ELSE \A t \in Terminators(hdr) : t > BufferSize

\* C31: no session reaches upgrade detection with an accumulated header longer
\* than BufferSize; on every input whose bytes exceed BufferSize, be it through
\* many lines, through the line that completes the terminator or through one
\* line without a line feed, the session takes the header-too-large path.
C31_OversizedNeverDetected ==
  \A s \in Sessions :
    /\ hpc[s] \notin {"idle", "read"} => Len(builder[s]) <= BufferSize
    /\ (plan[s].on /\ hpc[s] \notin {"idle", "read"} /\ OverLimit(plan[s].hdr))
         => (hpc[s] = "done" /\ down[s] = <<Resp431>> /\ NoUpgrade(s))

\* The same for the input the check catches: the size passes BufferSize at the
\* end of a line that does not complete the terminator.
C31_OversizedAtLineEnd ==
  \A s \in Sessions :
    (plan[s].on /\ hpc[s] \notin {"idle", "read"} /\ ExceedsLimit(plan[s].hdr))
      => (hpc[s] = "done" /\ down[s] = <<Resp431>> /\ NoUpgrade(s))

(***************************************************************************)
(* What an accept loop does with the results of Accept.                    *)
(***************************************************************************)
Listeners == {"tcp", "tls"}

\* The sessions whose task has been started.
Spawned == {s \in Sessions : hpc[s] # "idle"}

\* C32: a timeout of Accept never ends the loop and starts no session; any
\* other error of Accept ends the loop of that listener, which closes its
\* listener, and touches neither the other listener nor any session; and each
\* accepted connection starts exactly one session task.  So a loop has ended
\* only on an error or on the cancellation.
C32_AcceptOutcomes ==
  /\ [](/\ \A l \in lpc.failed : lpc[l] = "closed"
        /\ \A l \in Listeners : lpc[l] = "closed" => (ctxDone \/ l \in lpc.failed))
  /\ [][/\ lpc.timeouts' # lpc.timeouts
             => /\ lpc.tcp' = lpc.tcp /\ lpc.tls' = lpc.tls /\ lpc.failed' = lpc.failed
                /\ UNCHANGED <<sessVars, chanVars, regVars, shutVars, crashed>>
        /\ \A l \in Listeners :
             (l \in lpc.failed' /\ l \notin lpc.failed)
               => /\ \A k \in Listeners \ {l} : lpc[k]' = lpc[k]
                  /\ UNCHANGED <<sessVars, chanVars, regVars, shutVars, crashed>>
        /\ Spawned' # Spawned
             => /\ \E s \in Sessions : Spawned' = Spawned \cup {s} /\ hpc[s]' = "read"
                /\ lpc.tcp = "open" \/ lpc.tls = "accept"
                /\ lpc.failed' = lpc.failed /\ lpc.timeouts' = lpc.timeouts]_vars

\* The plain listener has timed out and then failed; a session accepted on the
\* TLS listener after that is relaying, and the TLS loop is in Accept again.
C32_Witness ==
  /\ lpc.timeouts > 0
  /\ lpc.failed = {"tcp"}
  /\ lpc.tcp = "closed" /\ lpc.tls = "accept"
  /\ ~ctxDone
  /\ Spawned = Sessions
  /\ \E s \in Sessions : hpc[s] = "relay" /\ s \in conns

(***************************************************************************)
(* HeaderValue.                                                            *)
(***************************************************************************)
\* The first of the lines that carries the field Upgrade, 0 when none does.
FirstUpgradeLine(lines) ==
  LET hits == {i \in DOMAIN lines : CarriesUpgrade(lines[i])}
  IN IF hits = {} THEN 0 ELSE CHOOSE i \in hits : \A j \in hits : i <= j

\* The value looked for: that of the first line with the field, trimmed.
FirstUpgradeValue(lines) ==
  IF FirstUpgradeLine(lines) = 0 THEN <<>> ELSE UpgradeValue(lines[FirstUpgradeLine(lines)])

\* The name in three spellings.
UpgradeSpellings ==
  {UpgradeName, <<"U","P","G","R","A","D","E">>, <<"u","p","g","r","a","d","e">>}

\* C33: HeaderValue returns the trimmed value of the first line whose field
\* name, the trimmed text before the first colon, is the name asked for in any
\* case, and the empty string when there is no such line, blank lines and
\* lines without a colon being passed over; so the session goes for the
\* upgrade exactly when the first Upgrade line among the lines passed in has
\* a value that is not empty.
C33_HeaderValueFirstLine ==
  \A s \in Sessions :
    plan[s].on
      => /\ \A n \in UpgradeSpellings :
              HeaderValue(HeaderLines(plan[s].hdr), n) = FirstUpgradeValue(HeaderLines(plan[s].hdr))
         /\ (PastDetection(s) /\ HasSuffix(plan[s].hdr, CRLFCRLF))
              => (eng[s] # "none" <=> FirstUpgradeValue(HeaderLines(plan[s].hdr)) # <<>>)

\* A first Upgrade line without a value before one with a value: no upgrade.
C33_Witness ==
  \E s \in Sessions :
    /\ plan[s].hdr = Block(<<LineRequest, LineUpgradeEmpty, LineUpgradeTunnel>>)
    /\ hpc[s] = "done"
    /\ eng[s] = "none"
    /\ tr[s].client

(***************************************************************************)
(* Session.Close called more than once.                                    *)
(***************************************************************************)
\* The transports of a session in every state of being open or closed.
TransportStates == [client : BOOLEAN, peer : BOOLEAN, target : BOOLEAN,
                    proxy : BOOLEAN, ssh : BOOLEAN]

\* Close has been called for the session by Shutdown's sweep and by its own
\* teardown in Relay.
ClosedTwice(s) == s \in visited /\ RelayWaited(s)

\* C34: Session.Close is idempotent.  A second call changes nothing; a call
\* closes the client, and the target when the session has one, and nothing
\* else; a step of Shutdown's sweep or of Relay's teardown that calls it,
\* whatever the relay loops have closed before, leaves the session with both
\* transports closed and the registry as it was; a session without a target
\* never has more than its client closed.
C34_CloseIdempotent ==
  /\ [](/\ \A t \in TransportStates :
             /\ SessionClose(SessionClose(t)) = SessionClose(t)
             /\ SessionClose(t) = [t EXCEPT !.client = TRUE, !.proxy = t.proxy \/ t.target]
        /\ \A s \in Sessions :
             /\ ClosedTwice(s) => (tr[s].client /\ tr[s].proxy)
             /\ ~tr[s].target => ~tr[s].proxy)
  /\ [][\A s \in Sessions :
          (s \in visited' \ visited \/ (hpc[s] = "relay" /\ hpc[s]' = "remove"))
            => /\ tr[s]' = SessionClose(tr[s])
               /\ tr[s]'.client /\ tr[s]'.proxy
               /\ (tr[s].client /\ tr[s].proxy) => tr' = tr
               /\ \A r \in Sessions \ {s} : tr[r]' = tr[r]
               /\ UNCHANGED <<regVars, eng, c2t, t2c, up, pin, pout, down, chanVars, crashed>>]_vars

\* Closed by the sweep with its loops running and again by its teardown.
C34_Witness ==
  \E s \in Sessions :
    /\ ClosedTwice(s)
    /\ hpc[s] = "done"
    /\ tr[s].client /\ tr[s].proxy /\ tr[s].ssh
    /\ ~crashed

(***************************************************************************)
(* The user database after an operation that returned an error.            *)
(***************************************************************************)
\* C35: every operation on the user database that returns an error, a failure
\* to save the file included, leaves the map of users as it was before the
\* call.
C35_ErrorLeavesMapAlone ==
  [][um.err' # "nil" => um.users' = um.users]_vars

\* The same for every error but the failure to save.
C35_RejectedLeavesMapAlone ==
  [][um.err' \notin {"nil", "failed to save user database"} => um.users' = um.users]_vars

(***************************************************************************)
(* The counters of the registry against its map.                           *)
(***************************************************************************)
\* A call of Add or of Remove has begun and not yet returned.
MidRegistryCall ==
  \E s \in Sessions : eng[s] \in {"store", "wgadd"} \/ hpc[s] = "wgdone"

\* C36: the active count and the completion-wait counter are never below 0,
\* and whenever no Add or Remove is under way the active count is the number
\* of sessions in the map: Remove is executed only for a session whose Add
\* has taken effect.
C36_CountersMatchMap ==
  /\ activeCount >= 0
  /\ wg >= 0
  /\ ~MidRegistryCall => activeCount = Cardinality(conns)
  /\ \A s \in Sessions : calls[s].remove > 0 => (calls[s].add > 0 /\ s \notin lateAdd)

(***************************************************************************)
(* Add against cancel(); Shutdown().                                        *)
(***************************************************************************)
\* C37: once Shutdown has returned the map is empty and the active count and
\* the completion-wait counter are 0; after Shutdown's sweep of the tracked
\* sessions no Add takes effect, whenever it started.
C37_NothingAfterSweep ==
  /\ [](spc = "returned" => (conns = {} /\ activeCount = 0 /\ wg = 0))
  /\ [][spc = "wait" => (conns' \subseteq conns /\ wg' <= wg /\ activeCount' <= activeCount)]_vars

\* An Add that tested ctx.Done() after the cancellation has no effect.
C37_AddAfterCancelNoOp ==
  [][\A s \in Sessions : (ctxDone /\ eng[s] = "cb") => eng'[s] \notin {"store", "wgadd"}]_vars

(***************************************************************************)
(* What the client sends along with its header block.                      *)
(***************************************************************************)
\* The client -> pipe direction of the session can still carry bytes: the
\* header block has been read, and neither the client transport nor the pipe
\* is closed nor has the copy loop ended.
Carrying(s) ==
  /\ hpc[s] \in {"parsed", "respond", "relay"}
  /\ c2t[s] # "done"
  /\ ~tr[s].client /\ ~tr[s].peer /\ ~tr[s].proxy
  /\ ~PipeClosed(s)

\* C38: every byte the client sends after the header terminator reaches the
\* engine's end of the pipe, in order, also when it arrives together with the
\* end of the header block: what the client has sent is what the pipe has
\* been given followed by what is still on the way.
C38_NothingLostAfterHeader ==
  \A s \in Sessions : Carrying(s) => flow[s].in \o up[s] = Produced(s)

(***************************************************************************)
(* The success response against the engine's first bytes.                  *)
(***************************************************************************)
\* C39: on the tunnel path the client gets the success response whole, once,
\* and before any byte of the engine (its version banner first of all),
\* although the engine task is started before the response is written.
C39_ResponseFirstAndOnce ==
  \A s \in Sessions :
    /\ RelayEntered(s) => (down[s] # <<>> /\ down[s][1] = Resp101)
    /\ \A i \in DOMAIN down[s] :
         /\ down[s][i] = Resp101 => i = 1
         /\ down[s][i].k # "resp" => (i > 1 /\ down[s][1] = Resp101)
    /\ (EngineStarted(s) /\ hpc[s] = "respond") => (down[s] = <<>> /\ pout[s] # <<>> /\ Head(pout[s]) = Banner)

\* The banner has reached the client, right behind the response.
C39_Witness ==
  \E s \in Sessions :
    /\ RelayEntered(s)
    /\ Len(down[s]) >= 2 /\ down[s][1] = Resp101 /\ down[s][2] = Banner

(***************************************************************************)
(* Upgrade handling that fails once the pipe exists.                       *)
(***************************************************************************)
\* WebSocketHandler has returned false after net.Pipe(): the configuration
\* could not be built, or the response could not be written.
UpgradeFailed(s) == hpc[s] = "done" /\ ~RelayEntered(s) /\ eng[s] # "none"

\* What the claim asks of such a session: client transport and proxy end
\* closed, the engine not started or given up with its end closed (or still
\* to notice that its peer end is closed), no call of Add or Remove.
CleanedUp(s) ==
  /\ tr[s].client
  /\ tr[s].proxy
  /\ eng[s] \in {"nocfg", "hs", "failed"}
  /\ eng[s] # "hs" => tr[s].ssh
  /\ calls[s].add = 0 /\ calls[s].remove = 0

\* C40: whenever upgrade handling fails after the pipe has been created, the
\* client transport and both ends of the pipe end up closed, no engine keeps
\* running, and neither Add nor Remove is executed for the session.
C40_FailedUpgradeCleansUp ==
  \A s \in Sessions : UpgradeFailed(s) => CleanedUp(s)

\* The same of the sessions whose response could not be written.
C40_FailedWriteCleansUp ==
  \A s \in Sessions : (UpgradeFailed(s) /\ eng[s] # "nocfg") => CleanedUp(s)

====
